---- MODULE Spec2Model ----
(***************************************************************************)
(* Gym management system: the Gym aggregate (members / trainers and their  *)
(* email indexes), membership status, charging, the workout catalog and    *)
(* the snapshot writer, modelled operation by operation from src/gym.      *)
(*                                                                         *)
(* Strings that the code normalises (emails, names) are sequences of       *)
(* one-character strings so that lower() and strip() are computed.         *)
(* Identifiers "<prefix>_<hex>" are pairs <<prefix, n>>, n a fresh number. *)
(* Money is in cents.                                                      *)
(***************************************************************************)
EXTENDS Integers, Sequences, FiniteSets, TLC

VARIABLES
    memberObjs,         \* Member objects constructed so far: id -> fields
    trainerObjs,        \* Trainer objects constructed so far: id -> fields
    members,            \* Gym.members            : id -> Member (by id)
    members_by_email,   \* Gym.members_by_email   : email key -> id
    trainers,           \* Gym.trainers           : id -> Trainer (by id)
    trainers_by_email,  \* Gym.trainers_by_email  : email key -> id
    planObjs,           \* WorkoutPlan objects constructed so far
    plans,              \* WorkoutCatalog.plans           : id -> plan
    plans_by_member,    \* WorkoutCatalog.plans_by_member : member id -> list
    records,            \* InMemoryPaymentLedger.records
    processorCalls,     \* number of payment_processor.charge invocations
    fail_threshold,     \* FakePaymentProcessor.fail_threshold
    fs,                 \* file system: path -> content, for save_gym
    pc,                 \* position of the process inside save_gym
    payload,            \* save_gym's local document
    loaded,             \* what the last load_gym / decode call gave back
    codec,              \* one membership, its encoding and its decoding
    last                \* the last call and how it ended

vars == <<memberObjs, trainerObjs, members, members_by_email, trainers,
          trainers_by_email, planObjs, plans, plans_by_member, records,
          processorCalls, fail_threshold, fs, pc, payload, loaded, codec,
          last>>

peopleVars  == <<memberObjs, trainerObjs, members, members_by_email,
                 trainers, trainers_by_email>>
catalogVars == <<planObjs, plans, plans_by_member>>
ledgerVars  == <<records, processorCalls, fail_threshold>>
decodeVars  == <<loaded, codec>>
fileVars    == <<fs, pc, payload, decodeVars>>

----------------------------------------------------------------------------
(* Bounds *)

MaxPeople == 3
MaxMembers == 2
MaxPlans == 2
MaxListed == 3
MaxExercises == 2
MaxPlanObjects == 4
MaxLedger == 2
MaxGymObjects == 3

----------------------------------------------------------------------------
(* Error kinds and enums *)

NoError == "none"
ValidationError == "ValidationError"
NotFoundError == "NotFoundError"
TypeError == "TypeError"

ACTIVE == "active"
PAUSED == "paused"
CANCELLED == "cancelled"

SUCCESS == "success"
FAILED == "failed"

None == <<"none", 0>>

NoAmount == [given |-> FALSE, value |-> 0]
Amount(a) == [given |-> TRUE, value |-> a]

\* what the last call was: its name, its id argument, its numeric argument
\* (the amount of charge_member, the number of remove_exercise_from_plan, the
\* total a totalling call returned) and the error it raised, if any
Result(op, arg, err) == [op |-> op, arg |-> arg, amount |-> NoAmount, err |-> err]

ChargeResult(arg, amount, err) ==
    [op |-> "charge_member", arg |-> arg, amount |-> amount, err |-> err]

----------------------------------------------------------------------------
(* dict helpers *)

Put(d, k, v) == [x \in (DOMAIN d) \cup {k} |-> IF x = k THEN v ELSE d[x]]

Pop(d, k) == [x \in (DOMAIN d) \ {k} |-> d[x]]

EmptyDict == [x \in {} |-> None]

----------------------------------------------------------------------------
(* str.lower() and str.strip() *)

LowerChar(c) ==
    CASE c = "A" -> "a"
      [] c = "B" -> "b"
      [] c = "C" -> "c"
      [] c = "X" -> "x"
      [] c = "S" -> "s"
      [] OTHER -> c

Lower(s) == [i \in 1..Len(s) |-> LowerChar(s[i])]

IsSpace(c) == c = " "

RECURSIVE LStrip(_)
LStrip(s) ==
    IF s = <<>> THEN s
    ELSE IF IsSpace(Head(s)) THEN LStrip(Tail(s)) ELSE s

RECURSIVE RStrip(_)
RStrip(s) ==
    IF s = <<>> THEN s
    ELSE IF IsSpace(s[Len(s)]) THEN RStrip(SubSeq(s, 1, Len(s) - 1)) ELSE s

Strip(s) == RStrip(LStrip(s))

Contains(s, c) == \E i \in 1..Len(s) : s[i] = c

EmailKeyNoLower(email) == Strip(email)

\* email_key = member.email.lower().strip()
EmailKey(email) == Strip(Lower(email))

----------------------------------------------------------------------------
(* Inputs *)

EmailLower == <<"a", "@", "x", ".", "c">>
EmailUpperPadded == <<"A", "@", "X", ".", "C", " ">>
EmailOther == <<" ", "b", "@", "x", ".", "c">>
EmailNoAt == <<"a", ".", "c">>
EmailBlank == <<" ">>

EmailInputs == {EmailLower, EmailUpperPadded, EmailOther, EmailNoAt, EmailBlank}

NameInputs == {<<"A", "n", "n", " ">>}

NoDiscount == [type |-> "no_discount", arg |-> 0]
PercentOff(d) == [type |-> "percent_off", arg |-> d]
FixedPrice(p) == [type |-> "fixed_price", arg |-> p]

BasicPlain == [tier |-> "basic", price_policy |-> NoDiscount]
PremiumDiscounted == [tier |-> "premium", price_policy |-> PercentOff(20)]

MembershipInputs == {BasicPlain, PremiumDiscounted}

ExplicitAmounts == {-100, 500}

----------------------------------------------------------------------------
(* Identifiers: new_id(prefix) never returns an id it returned before *)

new_id(prefix, used) == <<prefix, Cardinality(used) + 1>>

----------------------------------------------------------------------------
(* Person / Member / Trainer construction (people.py) *)

\* Person.__post_init__: the checks on full_name and email
PersonValid(full_name, email) ==
    /\ Strip(full_name) # <<>>
    /\ Strip(email) # <<>>
    /\ Contains(Strip(email), "@")
    /\ Contains(Strip(email), ".")

\* Member(full_name, email, membership) with a freshly built membership,
\* whose __post_init__ sets status ACTIVE
NewMemberOf(Emails, Configs, room) ==
    /\ room
    /\ \E full_name \in NameInputs, email \in Emails, ms \in Configs :
         IF PersonValid(full_name, email)
         THEN LET id == new_id("mem", DOMAIN memberObjs)
              IN /\ memberObjs' = Put(memberObjs, id,
                                      [full_name |-> Strip(full_name),
                                       email |-> Strip(email),
                                       tier |-> ms.tier,
                                       price_policy |-> ms.price_policy,
                                       status |-> ACTIVE])
                 /\ last' = Result("Member", id, NoError)
         ELSE /\ UNCHANGED memberObjs
              /\ last' = Result("Member", None, ValidationError)
    /\ UNCHANGED <<trainerObjs, members, members_by_email, trainers,
                   trainers_by_email, catalogVars, ledgerVars, fileVars>>

\* Trainer(full_name, email)
NewTrainerOf(Emails, room) ==
    /\ room
    /\ \E full_name \in NameInputs, email \in Emails :
         IF PersonValid(full_name, email)
         THEN LET id == new_id("trn", DOMAIN trainerObjs)
              IN /\ trainerObjs' = Put(trainerObjs, id,
                                       [full_name |-> Strip(full_name),
                                        email |-> Strip(email)])
                 /\ last' = Result("Trainer", id, NoError)
         ELSE /\ UNCHANGED trainerObjs
              /\ last' = Result("Trainer", None, ValidationError)
    /\ UNCHANGED <<memberObjs, members, members_by_email, trainers,
                   trainers_by_email, catalogVars, ledgerVars, fileVars>>

----------------------------------------------------------------------------
(* BaseMembership (memberships.py) *)

Outcome(err, status) == [err |-> err, status |-> status]

pause_unguarded(status) == Outcome(NoError, PAUSED)

pause(status) ==
    IF status = CANCELLED
    THEN Outcome(ValidationError, status)
    ELSE Outcome(NoError, PAUSED)

resume_unguarded(status) == Outcome(NoError, ACTIVE)

resume(status) ==
    IF status = CANCELLED
    THEN Outcome(ValidationError, status)
    ELSE Outcome(NoError, ACTIVE)

cancel_guarded(status) ==
    IF status = CANCELLED
    THEN Outcome(ValidationError, status)
    ELSE Outcome(NoError, CANCELLED)

cancel(status) == Outcome(NoError, CANCELLED)

is_active(status) == status = ACTIVE

base_monthly_price(tier) == IF tier = "premium" THEN 5999 ELSE 2999

\* PricePolicy.apply, as a fraction num / den of cents
apply(policy, base_price) ==
    CASE policy.type = "no_discount" -> [num |-> base_price, den |-> 1]
      [] policy.type = "percent_off" ->
            [num |-> base_price * (100 - policy.arg), den |-> 100]
      [] policy.type = "fixed_price" -> [num |-> policy.arg, den |-> 1]

\* round(x, 2): to the nearest cent, ties to the even cent
round2(x) ==
    LET q == x.num \div x.den
        r == x.num % x.den
    IN  IF 2 * r < x.den THEN q
        ELSE IF 2 * r > x.den THEN q + 1
        ELSE IF q % 2 = 0 THEN q ELSE q + 1

monthly_price_undiscounted(m) == base_monthly_price(m.tier)

monthly_price(m) == round2(apply(m.price_policy, base_monthly_price(m.tier)))

SetStatus(id, status) ==
    memberObjs' = [memberObjs EXCEPT ![id].status = status]

\* a caller holding the member calls member.membership.<method>()
\* (Member.pause_membership / cancel_membership delegate to the same)
MembershipCall(op, id, out) ==
    /\ SetStatus(id, out.status)
    /\ last' = Result(op, id, out.err)
    /\ UNCHANGED <<trainerObjs, members, members_by_email, trainers,
                   trainers_by_email, catalogVars, ledgerVars, fileVars>>

MembershipPause ==
    \E id \in DOMAIN memberObjs :
        MembershipCall("pause", id, pause(memberObjs[id].status))

MembershipResume ==
    \E id \in DOMAIN memberObjs :
        MembershipCall("resume", id, resume(memberObjs[id].status))

MembershipCancel ==
    \E id \in DOMAIN memberObjs :
        MembershipCall("cancel", id, cancel(memberObjs[id].status))

----------------------------------------------------------------------------
(* Gym: members and trainers (gym.py) *)

IsMember(x) == x \in DOMAIN memberObjs
IsTrainer(x) == x \in DOMAIN trainerObjs

add_member_primary_first(x) ==
    /\ IF ~IsMember(x)
       THEN /\ last' = Result("add_member", x, ValidationError)
            /\ UNCHANGED <<members, members_by_email>>
       ELSE IF memberObjs[x].status = CANCELLED
       THEN /\ last' = Result("add_member", x, ValidationError)
            /\ UNCHANGED <<members, members_by_email>>
       ELSE IF x \in DOMAIN members
       THEN /\ last' = Result("add_member", x, ValidationError)
            /\ UNCHANGED <<members, members_by_email>>
       ELSE LET email_key == EmailKey(memberObjs[x].email)
            IN  /\ members' = Put(members, x, x)
                /\ IF email_key \in DOMAIN members_by_email
                   THEN /\ last' = Result("add_member", x, ValidationError)
                        /\ UNCHANGED members_by_email
                   ELSE /\ members_by_email' = Put(members_by_email, email_key, x)
                        /\ last' = Result("add_member", x, NoError)
    /\ UNCHANGED <<memberObjs, trainerObjs, trainers, trainers_by_email,
                   catalogVars, ledgerVars, fileVars>>

add_member_any_status(x) ==
    /\ IF ~IsMember(x)
       THEN /\ last' = Result("add_member", x, ValidationError)
            /\ UNCHANGED <<members, members_by_email>>
       ELSE IF x \in DOMAIN members
       THEN /\ last' = Result("add_member", x, ValidationError)
            /\ UNCHANGED <<members, members_by_email>>
       ELSE LET email_key == EmailKey(memberObjs[x].email)
            IN  IF email_key \in DOMAIN members_by_email
                THEN /\ last' = Result("add_member", x, ValidationError)
                     /\ UNCHANGED <<members, members_by_email>>
                ELSE /\ members' = Put(members, x, x)
                     /\ members_by_email' = Put(members_by_email, email_key, x)
                     /\ last' = Result("add_member", x, NoError)
    /\ UNCHANGED <<memberObjs, trainerObjs, trainers, trainers_by_email,
                   catalogVars, ledgerVars, fileVars>>

\* Gym.add_member(member)
add_member(x) ==
    /\ IF ~IsMember(x)
       THEN /\ last' = Result("add_member", x, ValidationError)
            /\ UNCHANGED <<members, members_by_email>>
       ELSE IF memberObjs[x].status = CANCELLED
       THEN /\ last' = Result("add_member", x, ValidationError)
            /\ UNCHANGED <<members, members_by_email>>
       ELSE IF x \in DOMAIN members
       THEN /\ last' = Result("add_member", x, ValidationError)
            /\ UNCHANGED <<members, members_by_email>>
       ELSE LET email_key == EmailKey(memberObjs[x].email)
            IN  IF email_key \in DOMAIN members_by_email
                THEN /\ last' = Result("add_member", x, ValidationError)
                     /\ UNCHANGED <<members, members_by_email>>
                ELSE /\ members' = Put(members, x, x)
                     /\ members_by_email' = Put(members_by_email, email_key, x)
                     /\ last' = Result("add_member", x, NoError)
    /\ UNCHANGED <<memberObjs, trainerObjs, trainers, trainers_by_email,
                   catalogVars, ledgerVars, fileVars>>

remove_member_keep_index(member_id) ==
    /\ IF member_id \notin DOMAIN members
       THEN /\ last' = Result("remove_member", member_id, NotFoundError)
            /\ UNCHANGED <<members, members_by_email>>
       ELSE /\ members' = Pop(members, member_id)
            /\ UNCHANGED members_by_email
            /\ last' = Result("remove_member", member_id, NoError)
    /\ UNCHANGED <<memberObjs, trainerObjs, trainers, trainers_by_email,
                   catalogVars, ledgerVars, fileVars>>

remove_member_purging_ledger(member_id) ==
    /\ IF member_id \notin DOMAIN members
       THEN /\ last' = Result("remove_member", member_id, NotFoundError)
            /\ UNCHANGED <<members, members_by_email, records>>
       ELSE /\ members' = Pop(members, member_id)
            /\ members_by_email' =
                  Pop(members_by_email, EmailKey(memberObjs[members[member_id]].email))
            /\ records' = SelectSeq(records, LAMBDA r : r.member_id # member_id)
            /\ last' = Result("remove_member", member_id, NoError)
    /\ UNCHANGED <<memberObjs, trainerObjs, trainers, trainers_by_email,
                   catalogVars, processorCalls, fail_threshold, fileVars>>

remove_member_index_only(member_id) ==
    /\ IF member_id \notin DOMAIN members
       THEN /\ last' = Result("remove_member", member_id, NotFoundError)
            /\ UNCHANGED <<members, members_by_email>>
       ELSE /\ UNCHANGED members
            /\ members_by_email' =
                  Pop(members_by_email, EmailKey(memberObjs[members[member_id]].email))
            /\ last' = Result("remove_member", member_id, NoError)
    /\ UNCHANGED <<memberObjs, trainerObjs, trainers, trainers_by_email,
                   catalogVars, ledgerVars, fileVars>>

remove_member_unchecked(member_id) ==
    /\ IF member_id \notin DOMAIN members
       THEN /\ last' = Result("remove_member", member_id, NotFoundError)
            /\ UNCHANGED <<members, members_by_email>>
       ELSE LET member == memberObjs[members[member_id]]
                email_key == EmailKey(member.email)
            IN  /\ members' = Pop(members, member_id)
                /\ members_by_email' = Pop(members_by_email, email_key)
                /\ last' = Result("remove_member", member_id, NoError)
    /\ UNCHANGED <<memberObjs, trainerObjs, trainers, trainers_by_email,
                   catalogVars, ledgerVars, fileVars>>

remove_member_absent_ok(member_id) ==
    /\ IF member_id \notin DOMAIN members
       THEN /\ last' = Result("remove_member", member_id, NoError)
            /\ UNCHANGED <<members, members_by_email>>
       ELSE LET member == memberObjs[members[member_id]]
                email_key == EmailKey(member.email)
            IN  /\ members' = Pop(members, member_id)
                /\ IF /\ email_key \in DOMAIN members_by_email
                      /\ members_by_email[email_key] = member_id
                   THEN /\ members_by_email' = Pop(members_by_email, email_key)
                        /\ last' = Result("remove_member", member_id, NoError)
                   ELSE /\ UNCHANGED members_by_email
                        /\ last' = Result("remove_member", member_id,
                                          ValidationError)
    /\ UNCHANGED <<memberObjs, trainerObjs, trainers, trainers_by_email,
                   catalogVars, ledgerVars, fileVars>>

remove_member_cascading(member_id) ==
    /\ IF member_id \notin DOMAIN members
       THEN /\ last' = Result("remove_member", member_id, NotFoundError)
            /\ UNCHANGED <<members, members_by_email, plans, plans_by_member>>
       ELSE LET member == memberObjs[members[member_id]]
                email_key == EmailKey(member.email)
                kept == {id \in DOMAIN plans :
                            planObjs[plans[id]].member_id # member_id}
            IN  /\ members' = Pop(members, member_id)
                /\ plans' = [id \in kept |-> plans[id]]
                /\ plans_by_member' = Pop(plans_by_member, member_id)
                /\ IF /\ email_key \in DOMAIN members_by_email
                      /\ members_by_email[email_key] = member_id
                   THEN /\ members_by_email' = Pop(members_by_email, email_key)
                        /\ last' = Result("remove_member", member_id, NoError)
                   ELSE /\ UNCHANGED members_by_email
                        /\ last' = Result("remove_member", member_id,
                                          ValidationError)
    /\ UNCHANGED <<memberObjs, trainerObjs, trainers, trainers_by_email,
                   planObjs, ledgerVars, fileVars>>

\* Gym.remove_member(member_id)
remove_member(member_id) ==
    /\ IF member_id \notin DOMAIN members
       THEN /\ last' = Result("remove_member", member_id, NotFoundError)
            /\ UNCHANGED <<members, members_by_email>>
       ELSE LET member == memberObjs[members[member_id]]
                email_key == EmailKey(member.email)
            IN  /\ members' = Pop(members, member_id)
                /\ IF /\ email_key \in DOMAIN members_by_email
                      /\ members_by_email[email_key] = member_id
                   THEN /\ members_by_email' = Pop(members_by_email, email_key)
                        /\ last' = Result("remove_member", member_id, NoError)
                   ELSE /\ UNCHANGED members_by_email
                        /\ last' = Result("remove_member", member_id,
                                          ValidationError)
    /\ UNCHANGED <<memberObjs, trainerObjs, trainers, trainers_by_email,
                   catalogVars, ledgerVars, fileVars>>

\* Gym.add_trainer(trainer)
add_trainer(x) ==
    /\ IF ~IsTrainer(x)
       THEN /\ last' = Result("add_trainer", x, ValidationError)
            /\ UNCHANGED <<trainers, trainers_by_email>>
       ELSE IF x \in DOMAIN trainers
       THEN /\ last' = Result("add_trainer", x, ValidationError)
            /\ UNCHANGED <<trainers, trainers_by_email>>
       ELSE LET email_key == EmailKey(trainerObjs[x].email)
            IN  IF email_key \in DOMAIN trainers_by_email
                THEN /\ last' = Result("add_trainer", x, ValidationError)
                     /\ UNCHANGED <<trainers, trainers_by_email>>
                ELSE /\ trainers' = Put(trainers, x, x)
                     /\ trainers_by_email' = Put(trainers_by_email, email_key, x)
                     /\ last' = Result("add_trainer", x, NoError)
    /\ UNCHANGED <<memberObjs, trainerObjs, members, members_by_email,
                   catalogVars, ledgerVars, fileVars>>

\* Gym.remove_trainer(trainer_id)
remove_trainer(trainer_id) ==
    /\ IF trainer_id \notin DOMAIN trainers
       THEN /\ last' = Result("remove_trainer", trainer_id, NotFoundError)
            /\ UNCHANGED <<trainers, trainers_by_email>>
       ELSE LET trainer == trainerObjs[trainers[trainer_id]]
                email_key == EmailKey(trainer.email)
            IN  /\ trainers' = Pop(trainers, trainer_id)
                /\ IF /\ email_key \in DOMAIN trainers_by_email
                      /\ trainers_by_email[email_key] = trainer_id
                   THEN /\ trainers_by_email' = Pop(trainers_by_email, email_key)
                        /\ last' = Result("remove_trainer", trainer_id, NoError)
                   ELSE /\ UNCHANGED trainers_by_email
                        /\ last' = Result("remove_trainer", trainer_id,
                                          ValidationError)
    /\ UNCHANGED <<memberObjs, trainerObjs, members, members_by_email,
                   catalogVars, ledgerVars, fileVars>>

\* Gym.get_member(member_id): the Member, or NotFoundError
get_member(member_id) ==
    IF member_id \in DOMAIN members
    THEN [err |-> NoError, member |-> members[member_id]]
    ELSE [err |-> NotFoundError, member |-> None]

find_member_by_email_exact(email) ==
    LET email_key == Strip(email)
    IN  IF email_key \notin DOMAIN members_by_email
        THEN None
        ELSE members[members_by_email[email_key]]

\* Gym.find_member_by_email(email): the Member, or None
find_member_by_email(email) ==
    LET email_key == Strip(Lower(email))
    IN  IF email_key \notin DOMAIN members_by_email
        THEN None
        ELSE members[members_by_email[email_key]]

\* Gym.get_trainer(trainer_id)
get_trainer(trainer_id) ==
    IF trainer_id \in DOMAIN trainers
    THEN [err |-> NoError, trainer |-> trainers[trainer_id]]
    ELSE [err |-> NotFoundError, trainer |-> None]

pause_membership_toggling(member_id) ==
    LET got == get_member(member_id)
    IN  /\ IF got.err # NoError
           THEN /\ last' = Result("pause_membership", member_id, got.err)
                /\ UNCHANGED memberObjs
           ELSE LET status == memberObjs[got.member].status
                    out == IF status = PAUSED THEN resume(status)
                           ELSE pause(status)
                IN  /\ SetStatus(got.member, out.status)
                    /\ last' = Result("pause_membership", member_id, out.err)
        /\ UNCHANGED <<trainerObjs, members, members_by_email, trainers,
                       trainers_by_email, catalogVars, ledgerVars, fileVars>>

\* Gym.pause_membership(member_id)
pause_membership(member_id) ==
    LET got == get_member(member_id)
    IN  /\ IF got.err # NoError
           THEN /\ last' = Result("pause_membership", member_id, got.err)
                /\ UNCHANGED memberObjs
           ELSE LET out == pause(memberObjs[got.member].status)
                IN  /\ SetStatus(got.member, out.status)
                    /\ last' = Result("pause_membership", member_id, out.err)
        /\ UNCHANGED <<trainerObjs, members, members_by_email, trainers,
                       trainers_by_email, catalogVars, ledgerVars, fileVars>>

\* Gym.cancel_member_membership(member_id)
cancel_member_membership(member_id) ==
    LET got == get_member(member_id)
    IN  /\ IF got.err # NoError
           THEN /\ last' = Result("cancel_member_membership", member_id, got.err)
                /\ UNCHANGED memberObjs
           ELSE LET out == cancel(memberObjs[got.member].status)
                IN  /\ SetStatus(got.member, out.status)
                    /\ last' = Result("cancel_member_membership", member_id,
                                      out.err)
        /\ UNCHANGED <<trainerObjs, members, members_by_email, trainers,
                       trainers_by_email, catalogVars, ledgerVars, fileVars>>

----------------------------------------------------------------------------
(* Payments (payments.py) and Gym.charge_member *)

NoThreshold == -1

\* FakePaymentProcessor.charge -> PaymentRecord.create
processor_charge(member_id, member_name, amount) ==
    [id |-> new_id("pay", 1..Len(records)),
     member_id |-> member_id,
     member_name |-> Strip(member_name),
     amount |-> amount,
     status |-> IF fail_threshold # NoThreshold /\ amount > fail_threshold
                THEN FAILED ELSE SUCCESS]

ledger_add_front(recs, record) == <<record>> \o recs

\* InMemoryPaymentLedger.add(record)
ledger_add(recs, record) == Append(recs, record)

charge_member_charge_first(member_id, amount) ==
    LET got == get_member(member_id)
    IN  /\ IF got.err # NoError
           THEN /\ last' = ChargeResult(member_id, amount, got.err)
                /\ UNCHANGED <<records, processorCalls>>
           ELSE LET member == memberObjs[got.member]
                    charge_amount == IF amount.given THEN amount.value
                                     ELSE monthly_price(member)
                IN  IF charge_amount < 0
                    THEN /\ last' = ChargeResult(member_id, amount,
                                                 ValidationError)
                         /\ UNCHANGED <<records, processorCalls>>
                    ELSE /\ Len(records) < MaxLedger
                         /\ processorCalls' = processorCalls + 1
                         /\ records' = Append(records,
                                processor_charge(got.member, member.full_name,
                                                 charge_amount))
                         /\ last' = ChargeResult(member_id, amount,
                                IF is_active(member.status) THEN NoError
                                ELSE ValidationError)
        /\ UNCHANGED <<peopleVars, catalogVars, fail_threshold, fileVars>>

\* Gym.charge_member(member_id, amount=None)
charge_member(member_id, amount) ==
    LET got == get_member(member_id)
    IN  /\ IF got.err # NoError
           THEN /\ last' = ChargeResult(member_id, amount, got.err)
                /\ UNCHANGED <<records, processorCalls>>
           ELSE LET member == memberObjs[got.member]
                    charge_amount == IF amount.given THEN amount.value
                                     ELSE monthly_price(member)
                IN  IF ~is_active(member.status)
                    THEN /\ last' = ChargeResult(member_id, amount,
                                                 ValidationError)
                         /\ UNCHANGED <<records, processorCalls>>
                    ELSE IF charge_amount < 0
                    THEN /\ last' = ChargeResult(member_id, amount,
                                                 ValidationError)
                         /\ UNCHANGED <<records, processorCalls>>
                    ELSE /\ Len(records) < MaxLedger
                         /\ processorCalls' = processorCalls + 1
                         /\ records' = ledger_add(records,
                                processor_charge(got.member, member.full_name,
                                                 charge_amount))
                         /\ last' = ChargeResult(member_id, amount, NoError)
        /\ UNCHANGED <<peopleVars, catalogVars, fail_threshold, fileVars>>

\* sum(r.amount for r in records if keep(r)), left to right
RECURSIVE sum_amounts(_, _)
sum_amounts(recs, kept) ==
    IF recs = <<>> THEN 0
    ELSE (IF kept[1] THEN recs[1].amount ELSE 0)
         + sum_amounts(Tail(recs), Tail(kept))

total_success_for_member_any_status(recs, member_id) ==
    sum_amounts(recs, [i \in 1..Len(recs) |-> recs[i].member_id = member_id])

\* InMemoryPaymentLedger.total_success_for_member(member_id)
total_success_for_member(recs, member_id) ==
    sum_amounts(recs, [i \in 1..Len(recs) |->
                          /\ recs[i].member_id = member_id
                          /\ recs[i].status = SUCCESS])

\* InMemoryPaymentLedger.total_success_for_all()
total_success_for_all(recs) ==
    sum_amounts(recs, [i \in 1..Len(recs) |-> recs[i].status = SUCCESS])

\* what a totalling call returned
Total(op, arg, value) ==
    [op |-> op, arg |-> arg, amount |-> Amount(value), err |-> NoError]

\* Gym.total_paid_by_member(member_id)
total_paid_by_member(member_id) ==
    LET got == get_member(member_id)
    IN  /\ last' = IF got.err # NoError
                   THEN Result("total_paid_by_member", member_id, got.err)
                   ELSE Total("total_paid_by_member", member_id,
                              total_success_for_member(records, member_id))
        /\ UNCHANGED <<peopleVars, catalogVars, ledgerVars, fileVars>>

\* Gym.total_revenue()
total_revenue ==
    /\ last' = Total("total_revenue", None, total_success_for_all(records))
    /\ UNCHANGED <<peopleVars, catalogVars, ledgerVars, fileVars>>

----------------------------------------------------------------------------
(* Workout plans and the catalog (workouts.py) *)

BlankId == <<" ", 0>>

IsBlankId(x) == x[1] \in {"", " "}

\* the member_id strings handed to WorkoutPlan(member_id, title): two member
\* ids, the id of the first plan, and a blank string
OwnerInputs == {<<"mem", 1>>, <<"mem", 2>>, <<"wkp", 1>>, BlankId}

PlanTitle == <<"L", "e", "g", "s">>

\* WorkoutPlan(member_id, title)
NewPlan ==
    /\ Cardinality(DOMAIN planObjs) < MaxPlans
    /\ \E member_id \in OwnerInputs :
         IF IsBlankId(member_id) \/ Strip(PlanTitle) = <<>>
         THEN /\ UNCHANGED planObjs
              /\ last' = Result("WorkoutPlan", None, ValidationError)
         ELSE LET id == new_id("wkp", DOMAIN planObjs)
              IN  /\ planObjs' = Put(planObjs, id,
                                     [member_id |-> member_id,
                                      title |-> Strip(PlanTitle),
                                      exercises |-> <<>>])
                  /\ last' = Result("WorkoutPlan", id, NoError)
    /\ UNCHANGED <<peopleVars, plans, plans_by_member, ledgerVars, fileVars>>

SetDefaultPrepend(d, k, v) ==
    Put(d, k, <<v>> \o (IF k \in DOMAIN d THEN d[k] ELSE <<>>))

\* dict.setdefault(k, []).append(v)
SetDefaultAppend(d, k, v) ==
    Put(d, k, Append(IF k \in DOMAIN d THEN d[k] ELSE <<>>, v))

\* length of plans_by_member[member_id]
Listed(member_id) ==
    IF member_id \in DOMAIN plans_by_member
    THEN Len(plans_by_member[member_id]) ELSE 0

\* WorkoutCatalog.add_plan(plan)
add_plan(x) ==
    /\ IF x \notin DOMAIN planObjs
       THEN /\ last' = Result("add_plan", x, ValidationError)
            /\ UNCHANGED <<plans, plans_by_member>>
       ELSE IF x \in DOMAIN plans
       THEN /\ last' = Result("add_plan", x, ValidationError)
            /\ UNCHANGED <<plans, plans_by_member>>
       ELSE /\ Listed(planObjs[x].member_id) < MaxListed
            /\ plans' = Put(plans, x, x)
            /\ plans_by_member' =
                   SetDefaultAppend(plans_by_member, planObjs[x].member_id, x)
            /\ last' = Result("add_plan", x, NoError)
    /\ UNCHANGED <<peopleVars, planObjs, ledgerVars, fileVars>>

\* WorkoutCatalog.remove_plan(plan_id); op names the caller's entry point.
\* After the pop the code looks the owner up in self.plans (line 123), not in
\* self.plans_by_member: the result is None unless the owner string is itself
\* the id of another stored plan, and then "plan_id not in <WorkoutPlan>"
\* raises TypeError.  No path removes the id from plans_by_member.
remove_plan_as(op, plan_id) ==
    /\ IF plan_id \notin DOMAIN plans
       THEN /\ last' = Result(op, plan_id, ValidationError)
            /\ UNCHANGED plans
       ELSE LET plan == planObjs[plans[plan_id]]
                member_id_key == plan.member_id
                popped == Pop(plans, plan_id)
            IN  /\ plans' = popped
                /\ IF member_id_key \notin DOMAIN popped
                   THEN last' = Result(op, plan_id, ValidationError)
                   ELSE last' = Result(op, plan_id, TypeError)
    /\ UNCHANGED <<peopleVars, planObjs, plans_by_member, ledgerVars, fileVars>>

remove_plan(plan_id) == remove_plan_as("remove_plan", plan_id)

\* Exercise(name, sets, reps): the constructor's checks and normalisation
ExerciseValid(raw) ==
    /\ Strip(Lower(raw.name)) # <<>>
    /\ raw.sets > 0
    /\ raw.reps > 0

Exercise(raw) ==
    [name |-> Strip(Lower(raw.name)), sets |-> raw.sets, reps |-> raw.reps]

Squat == [name |-> <<"S", "q", " ">>, sets |-> 3, reps |-> 10]
Row == [name |-> <<"r", "o", "w">>, sets |-> 3, reps |-> 8]
NoSets == [name |-> <<"r", "o", "w">>, sets |-> 0, reps |-> 8]

ExerciseInputs == {Squat, Row, NoSets}

\* WorkoutCatalog.get_plan(plan_id): the plan, or ValidationError
get_plan(plan_id) ==
    IF plan_id \in DOMAIN plans
    THEN [err |-> NoError, plan |-> plans[plan_id]]
    ELSE [err |-> ValidationError, plan |-> None]

PopAt_zero_based(seq, i) == SubSeq(seq, 1, i) \o SubSeq(seq, i + 2, Len(seq))

\* list.pop(i - 1)
PopAt(seq, i) == SubSeq(seq, 1, i - 1) \o SubSeq(seq, i + 1, Len(seq))

\* Gym.get_workout_plan(plan_id)
get_workout_plan(plan_id) ==
    /\ last' = Result("get_workout_plan", plan_id, get_plan(plan_id).err)
    /\ UNCHANGED <<peopleVars, catalogVars, ledgerVars, fileVars>>

\* Gym.add_exercise_to_plan(plan_id, exercise) -> WorkoutPlan.add_exercise
add_exercise_to_plan(plan_id, exercise) ==
    LET got == get_plan(plan_id)
    IN  /\ IF got.err # NoError
           THEN /\ last' = Result("add_exercise_to_plan", plan_id, got.err)
                /\ UNCHANGED planObjs
           ELSE /\ Len(planObjs[got.plan].exercises) < MaxExercises
                /\ planObjs' = [planObjs EXCEPT
                                   ![got.plan].exercises = Append(@, exercise)]
                /\ last' = Result("add_exercise_to_plan", plan_id, NoError)
        /\ UNCHANGED <<peopleVars, plans, plans_by_member, ledgerVars, fileVars>>

\* Gym.remove_exercise_from_plan(plan_id, number)
\*   -> WorkoutPlan.remove_exercise_by_number
remove_exercise_from_plan(plan_id, number) ==
    LET got == get_plan(plan_id)
        result(err) == [op |-> "remove_exercise_from_plan", arg |-> plan_id,
                        amount |-> Amount(number), err |-> err]
    IN  /\ IF got.err # NoError
           THEN /\ last' = result(got.err)
                /\ UNCHANGED planObjs
           ELSE IF number < 1 \/ number > Len(planObjs[got.plan].exercises)
           THEN /\ last' = result(ValidationError)
                /\ UNCHANGED planObjs
           ELSE /\ planObjs' = [planObjs EXCEPT
                                   ![got.plan].exercises = PopAt(@, number)]
                /\ last' = result(NoError)
        /\ UNCHANGED <<peopleVars, plans, plans_by_member, ledgerVars, fileVars>>

\* Gym.create_workout_plan(member_id, title): WorkoutPlan(member.id, title),
\* then WorkoutCatalog.add_plan
create_workout_plan(member_id) ==
    LET got == get_member(member_id)
    IN  /\ IF got.err # NoError
           THEN /\ last' = Result("create_workout_plan", member_id, got.err)
                /\ UNCHANGED catalogVars
           ELSE LET id == new_id("wkp", DOMAIN planObjs)
                IN  /\ Cardinality(DOMAIN planObjs) < MaxPlans
                    /\ Listed(got.member) < MaxListed
                    /\ planObjs' = Put(planObjs, id,
                                       [member_id |-> got.member,
                                        title |-> Strip(PlanTitle),
                                        exercises |-> <<>>])
                    /\ plans' = Put(plans, id, id)
                    /\ plans_by_member' =
                           SetDefaultAppend(plans_by_member, got.member, id)
                    /\ last' = Result("create_workout_plan", member_id, NoError)
        /\ UNCHANGED <<peopleVars, ledgerVars, fileVars>>

\* WorkoutCatalog.list_all_plans_for_member(member_id), as plan ids
list_all_plans_for_member(member_id) ==
    LET plans_ids == IF member_id \in DOMAIN plans_by_member
                     THEN plans_by_member[member_id] ELSE <<>>
        stored(pid) == pid \in DOMAIN plans
    IN  SelectSeq(plans_ids, stored)

\* Gym.list_plans_for_member(member_id): the plans, or NotFoundError
list_plans_for_member(member_id) ==
    LET got == get_member(member_id)
    IN  IF got.err # NoError
        THEN [err |-> got.err, plans |-> <<>>]
        ELSE [err |-> NoError, plans |-> list_all_plans_for_member(got.member)]

\* Gym.remove_workout_plan(plan_id)
remove_workout_plan(plan_id) == remove_plan_as("remove_workout_plan", plan_id)

----------------------------------------------------------------------------
(* Encoding (storage.py) *)

GymName == <<"X">>

\* JSON values that are not objects: numbers, booleans, strings, lists
JInt(n) == [json_type |-> "int", n |-> n]
JFloat(tenths) == [json_type |-> "float", tenths |-> tenths]
JBool(b) == [json_type |-> "bool", b |-> b]
JStr(s) == [json_type |-> "str", s |-> s]
JList == [json_type |-> "list"]

CURRENT_SCHEMA_VERSION == 1

\* price_policy_to_dict(policy)
price_policy_to_dict(policy) ==
    CASE policy.type = "no_discount" -> [type |-> "no_discount"]
      [] policy.type = "percent_off" ->
            [type |-> "percent_off", discount |-> policy.arg]
      [] policy.type = "fixed_price" ->
            [type |-> "fixed_price", price |-> policy.arg]

\* membership_to_dict: the first isinstance test is against BaseMembership,
\* which every membership satisfies
membership_to_dict(m) ==
    [type |-> IF m.tier \in {"basic", "premium"} THEN "basic"
              ELSE IF m.tier = "premium" THEN "premium" ELSE "unknown",
     status |-> m.status,
     price_policy |-> price_policy_to_dict(m.price_policy)]

member_to_dict(id, m) ==
    [id |-> id, full_name |-> m.full_name, email |-> m.email,
     membership |-> membership_to_dict(m)]

trainer_to_dict(id, t) ==
    [id |-> id, full_name |-> t.full_name, email |-> t.email]

exercise_to_dict(e) == [name |-> e.name, sets |-> e.sets, reps |-> e.reps]

workout_plan_to_dict(id, p) ==
    [id |-> id, member_id |-> p.member_id, title |-> p.title,
     exercises |-> [i \in 1..Len(p.exercises) |->
                       exercise_to_dict(p.exercises[i])]]

gym_to_dict ==
    [name |-> GymName,
     members |-> [mid \in DOMAIN members |->
                     member_to_dict(members[mid], memberObjs[members[mid]])],
     trainers |-> [tid \in DOMAIN trainers |->
                     trainer_to_dict(trainers[tid], trainerObjs[trainers[tid]])],
     payment_processor |-> [type |-> "fake", fail_threshold |-> fail_threshold],
     workouts |-> [plans |-> [pid \in DOMAIN plans |->
                     workout_plan_to_dict(plans[pid], planObjs[plans[pid]])]],
     payment_ledger |-> [records |-> records]]

----------------------------------------------------------------------------
(* Decoding (storage.py): each *_from_dict gives [err, value] *)

KeyError == "KeyError"
AttributeError == "AttributeError"
ValueError == "ValueError"

Tiers == {"basic", "premium"}

Has(data, k) == k \in DOMAIN data

\* PercentOff(discount), in percent: 0 < discount < 1
PercentOffValid(d) == 0 < d /\ d < 100

\* FixedPrice(price), in cents: price > 0
FixedPriceValid(p) == p > 0

PolicyInputs ==
    {NoDiscount, PercentOff(10), PercentOff(20), PercentOff(50),
     FixedPrice(1000), FixedPrice(2500), FixedPrice(5999)}

Decoded(err, value) == [err |-> err, value |-> value]

NoPolicy == [type |-> "none", arg |-> 0]
NoMembership ==
    Decoded(NoError, [tier |-> "none", price_policy |-> NoPolicy,
                      status |-> "none"])
Failed(err) == Decoded(err, NoMembership.value)

NoDoc == [type |-> "none"]
NoCodec == [stage |-> "none", x |-> NoMembership.value, doc |-> NoDoc,
            y |-> NoMembership]

\* price_policy_from_dict(data)
price_policy_from_dict(data) ==
    LET policy_type == data.type IN
    IF "type" \notin DOMAIN data THEN Decoded(ValidationError, NoPolicy)
    ELSE IF policy_type = "no_discount" THEN Decoded(NoError, NoDiscount)
    ELSE IF policy_type = "percent_off"
    THEN IF "discount" \notin DOMAIN data THEN Decoded(KeyError, NoPolicy)
         ELSE IF ~PercentOffValid(data.discount)
         THEN Decoded(ValidationError, NoPolicy)
         ELSE Decoded(NoError, PercentOff(data.discount))
    ELSE IF policy_type = "fixed_price"
    THEN IF "price" \notin DOMAIN data THEN Decoded(KeyError, NoPolicy)
         ELSE IF ~FixedPriceValid(data.price)
         THEN Decoded(ValidationError, NoPolicy)
         ELSE Decoded(NoError, FixedPrice(data.price))
    ELSE Decoded(ValidationError, NoPolicy)

\* MembershipStatus(status_str)
MembershipStatus(status_str) ==
    IF status_str \in {ACTIVE, PAUSED, CANCELLED}
    THEN Decoded(NoError, status_str)
    ELSE Decoded(ValueError, "none")

\* membership_from_dict(data), data a document with type, status and
\* price_policy
membership_from_dict(data) ==
    LET policy == price_policy_from_dict(data.price_policy)
        status == IF Has(data, "status") THEN MembershipStatus(data.status)
                  ELSE Decoded(ValueError, "none")
    IN  IF ~Has(data, "price_policy") THEN Failed(AttributeError)
        ELSE IF policy.err # NoError THEN Failed(policy.err)
        ELSE IF ~Has(data, "type") \/ data.type \notin Tiers
        THEN Failed(ValidationError)
        ELSE IF status.err # NoError THEN Failed(status.err)
        ELSE Decoded(NoError, [tier |-> data.type,
                               price_policy |-> policy.value,
                               status |-> status.value])

\* membership.pause() / resume() / cancel() before it is encoded
CodecCall(op, out) ==
    /\ codec.stage = "built"
    /\ codec' = [codec EXCEPT !.x.status = out.status]
    /\ last' = Result(op, None, out.err)
    /\ UNCHANGED <<peopleVars, catalogVars, ledgerVars, fs, pc, payload, loaded>>

CodecPause == CodecCall("pause", pause(codec.x.status))
CodecResume == CodecCall("resume", resume(codec.x.status))
CodecCancel == CodecCall("cancel", cancel(codec.x.status))

\* doc = membership_to_dict(x)
Encode ==
    /\ codec.stage = "built"
    /\ codec' = [codec EXCEPT !.stage = "encoded",
                              !.doc = membership_to_dict(codec.x)]
    /\ last' = Result("membership_to_dict", None, NoError)
    /\ UNCHANGED <<peopleVars, catalogVars, ledgerVars, fs, pc, payload, loaded>>

\* membership documents that are not what membership_to_dict writes: no
\* price_policy, a percent_off policy without discount, an unknown membership
\* type, an unknown policy type, an unknown status, a discount of 1.0 and a
\* fixed price of 0
Damaged(document) ==
    {[type |-> document.type, status |-> document.status],
     [document EXCEPT !.price_policy = [type |-> "percent_off"]],
     [document EXCEPT !.type = "gold"],
     [document EXCEPT !.price_policy = [type |-> "half_price"]],
     [document EXCEPT !.status = "frozen"],
     [document EXCEPT !.price_policy =
         [type |-> "percent_off", discount |-> 100]],
     [document EXCEPT !.price_policy = [type |-> "fixed_price", price |-> 0]]}

\* the document is changed between encoding and decoding
Damage ==
    /\ codec.stage = "encoded"
    /\ \E document \in Damaged(codec.doc) :
          codec' = [codec EXCEPT !.stage = "damaged", !.doc = document]
    /\ last' = Result("edit", None, NoError)
    /\ UNCHANGED <<peopleVars, catalogVars, ledgerVars, fs, pc, payload, loaded>>

\* y = membership_from_dict(doc)
Decode ==
    /\ codec.stage \in {"encoded", "damaged"}
    /\ codec' = [codec EXCEPT !.stage = IF codec.stage = "encoded"
                                        THEN "decoded" ELSE "decoded_damaged",
                              !.y = membership_from_dict(codec.doc)]
    /\ last' = Result("membership_from_dict", None, codec'.y.err)
    /\ UNCHANGED <<peopleVars, catalogVars, ledgerVars, fs, pc, payload, loaded>>

----------------------------------------------------------------------------
(* save_gym (storage.py): the file system and the steps of one call *)

\* json.dump streams the text of the document in pieces
DocChunks == 3

NoFile == [exists |-> FALSE, data |-> <<>>]
File(data) == [exists |-> TRUE, data |-> data]

\* a file holding the whole text of one document
Complete(f) ==
    /\ f.exists
    /\ Len(f.data) = DocChunks
    /\ \A i \in 1..DocChunks : f.data[i].part = i /\ f.data[i].of = f.data[1].of

SavePath == [stem |-> "data/gym", suffix |-> <<".json">>]

tmp_path_in_place(path) == path

\* path.with_suffix(path.suffix + ".tmp")
tmp_path(path) == [stem |-> path.stem, suffix |-> Append(path.suffix, ".tmp")]

Paths == {SavePath, tmp_path(SavePath)}

\* lines 373-382: build the payload
SaveBegin ==
    /\ pc = "idle"
    /\ payload' = [schema_version |-> JInt(CURRENT_SCHEMA_VERSION),
                   gym |-> gym_to_dict]
    /\ pc' = "open"
    /\ last' = Result("save_gym", None, NoError)
    /\ UNCHANGED <<peopleVars, catalogVars, ledgerVars, fs, decodeVars>>

\* line 386: open(tmp, "w") creates or truncates the sibling file
SaveOpen ==
    /\ pc = "open"
    /\ fs' = [fs EXCEPT ![tmp_path(SavePath)] = File(<<>>)]
    /\ pc' = "write"
    /\ UNCHANGED <<peopleVars, catalogVars, ledgerVars, payload, decodeVars,
                   last>>

\* line 387: json.dump writes the next piece; after the last one the file is
\* closed
SaveWrite ==
    /\ pc = "write"
    /\ LET tmp == tmp_path(SavePath)
           data == Append(fs[tmp].data,
                          [part |-> Len(fs[tmp].data) + 1, of |-> payload])
       IN  /\ fs' = [fs EXCEPT ![tmp] = File(data)]
           /\ pc' = IF Len(data) = DocChunks THEN "replace" ELSE "write"
    /\ UNCHANGED <<peopleVars, catalogVars, ledgerVars, payload, decodeVars,
                   last>>

\* line 389: tmp_path.replace(path)
SaveReplace ==
    /\ pc = "replace"
    /\ LET tmp == tmp_path(SavePath)
           moved == fs[tmp]
       IN  fs' = [p \in DOMAIN fs |-> IF p = SavePath THEN moved
                                      ELSE IF p = tmp THEN NoFile ELSE fs[p]]
    /\ pc' = "idle"
    /\ UNCHANGED <<peopleVars, catalogVars, ledgerVars, payload, decodeVars,
                   last>>

\* the process dies inside save_gym
Crash ==
    /\ pc \in {"open", "write", "replace"}
    /\ pc' = "crashed"
    /\ last' = Result("save_gym", None, "crash")
    /\ UNCHANGED <<peopleVars, catalogVars, ledgerVars, fs, payload,
                   decodeVars>>

----------------------------------------------------------------------------
(* load_gym and gym_from_dict (storage.py) *)

JSONDecodeError == "JSONDecodeError"

\* isinstance(v, dict), for a value of a document
IsDict(v) == ~Has(v, "json_type")

\* Python's v == n for a JSON value v and an int n: a float equals the int
\* of the same value, and bool is a subclass of int (True == 1)
PyEqualsInt(v, n) ==
    IF IsDict(v) THEN FALSE
    ELSE IF v.json_type = "int" THEN v.n = n
    ELSE IF v.json_type = "float" THEN v.tenths = 10 * n
    ELSE IF v.json_type = "bool" THEN (IF v.b THEN 1 ELSE 0) = n
    ELSE FALSE

\* the values of a JSON object in the order of the file: ascending id number
RECURSIVE Entries(_)
Entries(d) ==
    IF DOMAIN d = {} THEN <<>>
    ELSE LET k == CHOOSE k \in DOMAIN d : \A j \in DOMAIN d : k[2] <= j[2]
         IN  <<d[k]>> \o Entries(Pop(d, k))

NoPerson == [id |-> None, full_name |-> <<>>, email |-> <<>>]

\* member_from_dict(data); fresh is the id the constructor mints
member_from_dict(data, fresh) ==
    IF ~Has(data, "full_name") \/ Strip(data.full_name) = <<>>
    THEN Decoded(ValidationError, NoPerson)
    ELSE IF Has(data, "email") /\ data.email = <<>>
    THEN Decoded(ValidationError, NoPerson)
    ELSE IF ~Has(data, "membership") THEN Decoded(KeyError, NoPerson)
    ELSE LET membership == membership_from_dict(data.membership)
         IN  IF membership.err # NoError
             THEN Decoded(membership.err, NoPerson)
             ELSE IF ~Has(data, "email") THEN Decoded(ValidationError, NoPerson)
             ELSE IF ~PersonValid(data.full_name, data.email)
             THEN Decoded(ValidationError, NoPerson)
             ELSE Decoded(NoError,
                    [id |-> IF Has(data, "id") THEN data.id ELSE fresh,
                     full_name |-> Strip(data.full_name),
                     email |-> Strip(data.email),
                     tier |-> membership.value.tier,
                     price_policy |-> membership.value.price_policy,
                     status |-> membership.value.status])

\* trainer_from_dict(data)
trainer_from_dict(data, fresh) ==
    IF ~Has(data, "full_name") \/ Strip(data.full_name) = <<>>
    THEN Decoded(ValidationError, NoPerson)
    ELSE IF ~Has(data, "email") \/ Strip(data.email) = <<>>
    THEN Decoded(ValidationError, NoPerson)
    ELSE IF ~PersonValid(data.full_name, data.email)
    THEN Decoded(ValidationError, NoPerson)
    ELSE Decoded(NoError,
           [id |-> IF Has(data, "id") THEN data.id ELSE fresh,
            full_name |-> Strip(data.full_name),
            email |-> Strip(data.email)])

\* exercise_from_dict(data)
exercise_from_dict(data) ==
    IF ~Has(data, "name") \/ Strip(data.name) = <<>>
    THEN Decoded(ValidationError, data)
    ELSE LET raw == [name |-> data.name,
                     sets |-> IF Has(data, "sets") THEN data.sets ELSE 0,
                     reps |-> IF Has(data, "reps") THEN data.reps ELSE 0]
         IN  IF ExerciseValid(raw) THEN Decoded(NoError, Exercise(raw))
             ELSE Decoded(ValidationError, data)

NoPlan == [id |-> None, member_id |-> None, title |-> <<>>, exercises |-> <<>>]

\* str(None), the stored id of a plan entry without "id"
NoneText == <<"None", 0>>

\* workout_plan_from_dict(data)
workout_plan_from_dict(data) ==
    IF ~Has(data, "member_id") \/ IsBlankId(data.member_id)
    THEN Decoded(ValidationError, NoPlan)
    ELSE IF ~Has(data, "title") \/ Strip(data.title) = <<>>
    THEN Decoded(ValidationError, NoPlan)
    ELSE LET exercise_data == IF Has(data, "exercises") THEN data.exercises
                              ELSE <<>>
             exercises == [i \in 1..Len(exercise_data) |->
                              exercise_from_dict(exercise_data[i])]
         IN  IF \E i \in 1..Len(exercises) : exercises[i].err # NoError
             THEN Decoded(ValidationError, NoPlan)
             ELSE Decoded(NoError,
                    [id |-> IF Has(data, "id") THEN data.id ELSE NoneText,
                     member_id |-> data.member_id,
                     title |-> Strip(data.title),
                     exercises |-> [i \in 1..Len(exercises) |->
                                       exercises[i].value]])

\* the aggregate a decoder builds
NoGym ==
    [name |-> <<>>,
     members |-> EmptyDict, members_by_email |-> EmptyDict,
     trainers |-> EmptyDict, trainers_by_email |-> EmptyDict,
     plans |-> EmptyDict, plans_by_member |-> EmptyDict,
     records |-> <<>>]

\* what a call gave back: the error raised, or the value returned
Raised(op, err) ==
    [op |-> op, err |-> err, returned |-> FALSE, value |-> NoGym]
Returned(op, value) ==
    [op |-> op, err |-> NoError, returned |-> TRUE, value |-> value]

NoLoad == Raised("none", NoError)

\* gym_from_dict, lines 343-346: the loop over members_data
RECURSIVE members_from_entries(_, _)
members_from_entries(entries, gym) ==
    IF entries = <<>> \/ gym.err # NoError THEN gym
    ELSE LET member == member_from_dict(Head(entries),
                                        <<"mem", 0 - Len(entries)>>)
         IN  IF member.err # NoError THEN Decoded(member.err, gym.value)
             ELSE members_from_entries(Tail(entries),
                    Decoded(NoError,
                      [gym.value EXCEPT
                         !.members = Put(@, member.value.id, member.value),
                         !.members_by_email =
                             Put(@, Strip(Lower(member.value.email)),
                                 member.value.id)]))

\* gym_from_dict, lines 351-354: the loop over trainers_data
RECURSIVE trainers_from_entries(_, _)
trainers_from_entries(entries, gym) ==
    IF entries = <<>> \/ gym.err # NoError THEN gym
    ELSE LET trainer == trainer_from_dict(Head(entries),
                                          <<"trn", 0 - Len(entries)>>)
         IN  IF trainer.err # NoError THEN Decoded(trainer.err, gym.value)
             ELSE trainers_from_entries(Tail(entries),
                    Decoded(NoError,
                      [gym.value EXCEPT
                         !.trainers = Put(@, trainer.value.id, trainer.value),
                         !.trainers_by_email =
                             Put(@, Strip(Lower(trainer.value.email)),
                                 trainer.value.id)]))

\* workout_catalog_from_dict, lines 224-227: the loop over plans_data
RECURSIVE plans_from_entries(_, _)
plans_from_entries(entries, cat) ==
    IF entries = <<>> \/ cat.err # NoError THEN cat
    ELSE LET plan == workout_plan_from_dict(Head(entries))
         IN  IF plan.err # NoError THEN Decoded(plan.err, cat.value)
             ELSE plans_from_entries(Tail(entries),
                    Decoded(NoError,
                      [cat.value EXCEPT
                         !.plans = Put(@, plan.value.id, plan.value),
                         !.plans_by_member =
                             SetDefaultAppend(@, plan.value.member_id,
                                              plan.value.id)]))

\* workout_catalog_from_dict(data): [err, value], value carrying plans and
\* plans_by_member
workout_catalog_from_dict(data) ==
    IF ~IsDict(data) THEN Decoded(ValidationError, NoGym)
    ELSE plans_from_entries(
             Entries(IF Has(data, "plans") THEN data.plans ELSE EmptyDict),
             Decoded(NoError, NoGym))

NoRecord == [id |-> None, member_id |-> None, member_name |-> <<>>,
             amount |-> 0, status |-> "none"]

\* PaymentStatus(status_str)
PaymentStatus(status_str) ==
    IF status_str \in {SUCCESS, FAILED} THEN Decoded(NoError, status_str)
    ELSE Decoded(ValueError, "none")

\* payment_record_from_dict(data); the message of a record is the text the
\* processor wrote, never empty
payment_record_from_dict(data, fresh) ==
    IF ~Has(data, "member_id") \/ IsBlankId(data.member_id)
    THEN Decoded(ValidationError, NoRecord)
    ELSE IF ~Has(data, "member_name") \/ Strip(data.member_name) = <<>>
    THEN Decoded(ValidationError, NoRecord)
    ELSE IF ~Has(data, "amount") \/ data.amount < 0
    THEN Decoded(ValidationError, NoRecord)
    ELSE IF ~Has(data, "status") THEN Decoded(ValidationError, NoRecord)
    ELSE IF PaymentStatus(data.status).err # NoError
    THEN Decoded(PaymentStatus(data.status).err, NoRecord)
    ELSE Decoded(NoError,
           [id |-> IF Has(data, "id") THEN data.id ELSE fresh,
            member_id |-> data.member_id,
            member_name |-> Strip(data.member_name),
            amount |-> data.amount,
            status |-> PaymentStatus(data.status).value])

\* ledger_from_dict, lines 310-311: the loop over records_data
RECURSIVE records_from_entries(_, _)
records_from_entries(entries, ledger) ==
    IF entries = <<>> \/ ledger.err # NoError THEN ledger
    ELSE LET record == payment_record_from_dict(Head(entries),
                                                <<"pay", 0 - Len(entries)>>)
         IN  IF record.err # NoError THEN Decoded(record.err, ledger.value)
             ELSE records_from_entries(Tail(entries),
                    Decoded(NoError, ledger_add(ledger.value, record.value)))

\* ledger_from_dict(data)
ledger_from_dict(data) ==
    IF ~IsDict(data) THEN Decoded(ValidationError, <<>>)
    ELSE records_from_entries(
             IF Has(data, "records") THEN data.records ELSE <<>>,
             Decoded(NoError, <<>>))

\* FakePaymentProcessor(**kwargs): the class defines no __init__ (it is not a
\* dataclass), so object.__init__ refuses any argument
FakePaymentProcessor(kwargs) == IF kwargs = {} THEN NoError ELSE TypeError

gym_from_dict_best_effort(data) ==
    LET named == Decoded(NoError, [NoGym EXCEPT !.name = data.name])
        withMembers == members_from_entries(Entries(data.members), named)
    IN  IF withMembers.err # NoError
        THEN Returned("load_gym", withMembers.value)
        ELSE Raised("load_gym", TypeError)

\* gym_from_dict(data)
gym_from_dict(data) ==
    IF ~IsDict(data) THEN Raised("load_gym", ValidationError)
    ELSE IF ~Has(data, "name") \/ Strip(data.name) = <<>>
    THEN Raised("load_gym", ValidationError)
    ELSE IF ~Has(data, "members") \/ ~Has(data, "trainers")
    THEN Raised("load_gym", ValidationError)
    ELSE
    LET named == Decoded(NoError, [NoGym EXCEPT !.name = data.name])
        withMembers == members_from_entries(Entries(data.members), named)
        withTrainers == trainers_from_entries(Entries(data.trainers),
                                              withMembers)
        workouts == workout_catalog_from_dict(
                        IF Has(data, "workouts") THEN data.workouts
                        ELSE EmptyDict)
        payment_ledger == ledger_from_dict(
                              IF Has(data, "payment_ledger")
                              THEN data.payment_ledger ELSE EmptyDict)
        pp_data == IF Has(data, "payment_processor")
                   THEN data.payment_processor ELSE EmptyDict
        pp_type == IF Has(pp_data, "type") THEN pp_data.type ELSE "fake"
        processor == FakePaymentProcessor({"fail_threshold"})
        gym == [withTrainers.value EXCEPT
                   !.plans = workouts.value.plans,
                   !.plans_by_member = workouts.value.plans_by_member,
                   !.records = payment_ledger.value]
    IN  IF withTrainers.err # NoError
        THEN Raised("load_gym", withTrainers.err)
        ELSE IF workouts.err # NoError THEN Raised("load_gym", workouts.err)
        ELSE IF payment_ledger.err # NoError
        THEN Raised("load_gym", payment_ledger.err)
        ELSE IF pp_type # "fake" THEN Raised("load_gym", ValidationError)
        ELSE IF processor # NoError THEN Raised("load_gym", processor)
        ELSE Returned("load_gym", gym)

\* load_gym(filepath)
load_gym(path) ==
    IF ~fs[path].exists THEN Raised("load_gym", ValidationError)
    ELSE IF ~Complete(fs[path]) THEN Raised("load_gym", JSONDecodeError)
    ELSE LET document == fs[path].data[1].of
         IN  IF ~IsDict(document) THEN Raised("load_gym", ValidationError)
             ELSE IF \/ ~Has(document, "schema_version")
                     \/ ~PyEqualsInt(document.schema_version,
                                     CURRENT_SCHEMA_VERSION)
             THEN Raised("load_gym", ValidationError)
             ELSE IF ~Has(document, "gym")
             THEN Raised("load_gym", ValidationError)
             ELSE gym_from_dict(document.gym)

\* a client calls load_gym on the save path
LoadGym ==
    /\ pc = "idle"
    /\ loaded' = load_gym(SavePath)
    /\ last' = Result("load_gym", None, loaded'.err)
    /\ UNCHANGED <<peopleVars, catalogVars, ledgerVars, fs, pc, payload, codec>>

\* the document of a whole file
DocumentOf(f) == f.data[1].of

\* a file holding the whole text of a document
WholeFile(document) ==
    File([i \in 1..DocChunks |-> [part |-> i, of |-> document]])

\* a client decodes the workouts section of the saved document on its own
WorkoutCatalogFromDict ==
    /\ pc = "idle"
    /\ Complete(fs[SavePath])
    /\ Has(DocumentOf(fs[SavePath]), "gym")
    /\ LET cat == workout_catalog_from_dict(
                      DocumentOf(fs[SavePath]).gym.workouts)
       IN  /\ loaded' = IF cat.err = NoError
                        THEN Returned("workout_catalog_from_dict", cat.value)
                        ELSE Raised("workout_catalog_from_dict", cat.err)
           /\ last' = Result("workout_catalog_from_dict", None, cat.err)
    /\ UNCHANGED <<peopleVars, catalogVars, ledgerVars, fs, pc, payload, codec>>

\* schema_version values a hand-edited file may carry: 2, 0, "1", 1.5, 1.0
\* and true
VersionInputs ==
    {JInt(2), JInt(0), JStr("1"), JFloat(15), JFloat(10), JBool(TRUE)}

\* one more plan entry, the copy of the first one under a key of its own
\* and with another owner: two entries with the same stored id
SameStoredId(document) ==
    LET entries == document.gym.workouts.plans
        first == Entries(entries)[1]
        key == <<"wkp", 1 + Cardinality(DOMAIN entries) + first.id[2]>>
        owner == <<"mem", 1 + first.member_id[2]>>
    IN  [document EXCEPT !.gym.workouts.plans =
            Put(entries, key, [first EXCEPT !.member_id = owner])]

\* the last member entry loses its membership
LastMemberBroken(document) ==
    LET entries == document.gym.members
        k == CHOOSE k \in DOMAIN entries : \A j \in DOMAIN entries : j[2] <= k[2]
    IN  [document EXCEPT !.gym.members =
            Put(entries, k, [id |-> entries[k].id,
                             full_name |-> entries[k].full_name,
                             email |-> entries[k].email])]

\* the documents someone makes of a saved one with an editor; the last one
\* is a list at the root
Edits(document) ==
    {[document EXCEPT !.schema_version = v] : v \in VersionInputs}
        \cup {[gym |-> document.gym]}
        \cup (IF DOMAIN document.gym.members = {} THEN {}
              ELSE {LastMemberBroken(document)})
        \cup {JList}
        \cup (IF DOMAIN document.gym.workouts.plans = {} THEN {}
              ELSE {SameStoredId(document)})

\* the text of a file cut off after its first piece: not a JSON document
Truncated(f) == File(SubSeq(f.data, 1, 1))

\* the file save_gym wrote is edited by hand, once
EditFile ==
    /\ pc = "idle"
    /\ Complete(fs[SavePath])
    /\ DocumentOf(fs[SavePath]) = payload
    /\ \E f \in {WholeFile(document) : document \in Edits(payload) \ {payload}}
                  \cup {Truncated(fs[SavePath])} :
          fs' = [fs EXCEPT ![SavePath] = f]
    /\ last' = Result("edit", None, NoError)
    /\ UNCHANGED <<peopleVars, catalogVars, ledgerVars, pc, payload, decodeVars>>

----------------------------------------------------------------------------
(* Initial state: Gym(name="X"), nothing on disk *)

InitGym ==
    /\ memberObjs = EmptyDict
    /\ trainerObjs = EmptyDict
    /\ members = EmptyDict
    /\ members_by_email = EmptyDict
    /\ trainers = EmptyDict
    /\ trainers_by_email = EmptyDict
    /\ planObjs = EmptyDict
    /\ plans = EmptyDict
    /\ plans_by_member = EmptyDict
    /\ records = <<>>
    /\ processorCalls = 0
    /\ fail_threshold = NoThreshold
    /\ fs = [p \in Paths |-> NoFile]
    /\ pc = "idle"
    /\ payload = [schema_version |-> JInt(CURRENT_SCHEMA_VERSION),
                  gym |-> gym_to_dict]
    /\ loaded = NoLoad
    /\ last = Result("Gym", None, NoError)

Init ==
    /\ InitGym
    /\ codec = NoCodec

\* one freshly constructed membership of every tier and price policy
InitCodec ==
    /\ InitGym
    /\ \E tier \in Tiers, policy \in PolicyInputs :
          codec = [stage |-> "built",
                   x |-> [tier |-> tier, price_policy |-> policy,
                          status |-> ACTIVE],
                   doc |-> NoDoc,
                   y |-> NoMembership]

----------------------------------------------------------------------------
(* The calls a client makes *)

PeopleCount == Cardinality(DOMAIN memberObjs) + Cardinality(DOMAIN trainerObjs)

PeopleNewMember == NewMemberOf(EmailInputs, {BasicPlain}, PeopleCount < MaxPeople)

PeopleNewTrainer == NewTrainerOf(EmailInputs, PeopleCount < MaxPeople)

BillingNewMember ==
    NewMemberOf({EmailLower}, MembershipInputs,
                Cardinality(DOMAIN memberObjs) < MaxMembers)

AddMember == \E x \in DOMAIN memberObjs \cup DOMAIN trainerObjs : add_member(x)

RemoveMember == \E id \in DOMAIN memberObjs : remove_member(id)

AddTrainer == \E x \in DOMAIN memberObjs \cup DOMAIN trainerObjs : add_trainer(x)

RemoveTrainer == \E id \in DOMAIN trainerObjs : remove_trainer(id)

PauseMembership == \E id \in DOMAIN memberObjs : pause_membership(id)

CancelMemberMembership ==
    \E id \in DOMAIN memberObjs : cancel_member_membership(id)

ChargeMember ==
    \E id \in DOMAIN memberObjs :
        \E amount \in {NoAmount} \cup {Amount(a) : a \in ExplicitAmounts} :
            charge_member(id, amount)

UnknownPlanId == <<"wkp", 0>>

AddPlan == \E x \in DOMAIN planObjs \cup {None} : add_plan(x)

RemovePlan == \E id \in DOMAIN planObjs \cup {UnknownPlanId} : remove_plan(id)

RemoveWorkoutPlan ==
    \E id \in DOMAIN planObjs \cup {UnknownPlanId} : remove_workout_plan(id)

\* members, trainers and their email indexes
NextPeople ==
    \/ PeopleNewMember
    \/ PeopleNewTrainer
    \/ AddMember
    \/ RemoveMember
    \/ AddTrainer
    \/ RemoveTrainer

SpecPeople == Init /\ [][NextPeople]_vars

\* Person objects constructed in the email-drift specification
MaxDrift == 2

DriftNewMember == NewMemberOf({EmailLower, EmailOther}, {BasicPlain},
                                 PeopleCount < MaxDrift)

DriftNewTrainer == NewTrainerOf({EmailLower, EmailOther}, PeopleCount < MaxDrift)

\* a caller holding a Member assigns member.email: a dataclass field, written
\* without any check and without the gym's knowledge
SetMemberEmail ==
    /\ \E id \in DOMAIN memberObjs, email \in {EmailLower, EmailOther} :
          /\ memberObjs' = [memberObjs EXCEPT ![id].email = email]
          /\ last' = Result("email", id, NoError)
    /\ UNCHANGED <<trainerObjs, members, members_by_email, trainers,
                   trainers_by_email, catalogVars, ledgerVars, fileVars>>

\* the same for a Trainer
SetTrainerEmail ==
    /\ \E id \in DOMAIN trainerObjs, email \in {EmailLower, EmailOther} :
          /\ trainerObjs' = [trainerObjs EXCEPT ![id].email = email]
          /\ last' = Result("email", id, NoError)
    /\ UNCHANGED <<memberObjs, members, members_by_email, trainers,
                   trainers_by_email, catalogVars, ledgerVars, fileVars>>

\* members and trainers whose email is changed behind the gym's back
NextDrift ==
    \/ DriftNewMember
    \/ DriftNewTrainer
    \/ AddMember
    \/ AddTrainer
    \/ SetMemberEmail
    \/ SetTrainerEmail
    \/ RemoveMember
    \/ RemoveTrainer

SpecDrift == Init /\ [][NextDrift]_vars

\* the thresholds a caller sets: none, and the price of the basic membership
ThresholdInputs == {NoThreshold, 2999}

\* a caller assigns gym.payment_processor.fail_threshold
SetFailThreshold ==
    /\ \E threshold \in ThresholdInputs :
          /\ threshold # fail_threshold
          /\ fail_threshold' = threshold
          /\ last' = Result("fail_threshold", None, NoError)
    /\ UNCHANGED <<peopleVars, catalogVars, records, processorCalls, fileVars>>

TotalPaidByMember ==
    \E id \in DOMAIN memberObjs : total_paid_by_member(id)

TotalRevenue == total_revenue

\* charges that succeed and fail, and the totals read back
NextTotals ==
    \/ BillingNewMember
    \/ AddMember
    \/ SetFailThreshold
    \/ ChargeMember
    \/ TotalPaidByMember
    \/ TotalRevenue

SpecTotals == Init /\ [][NextTotals]_vars

\* membership status and charging
NextBilling ==
    \/ BillingNewMember
    \/ AddMember
    \/ MembershipPause
    \/ MembershipResume
    \/ MembershipCancel
    \/ PauseMembership
    \/ CancelMemberMembership
    \/ ChargeMember

SpecBilling == Init /\ [][NextBilling]_vars

\* the workout catalog
NextCatalog ==
    \/ NewPlan
    \/ AddPlan
    \/ RemovePlan
    \/ RemoveWorkoutPlan

SpecCatalog == Init /\ [][NextCatalog]_vars

\* the aggregate scenario holds at most MaxGymObjects members, plans and
\* ledger records together
GymRoom ==
    Cardinality(DOMAIN memberObjs) + Cardinality(DOMAIN planObjs) + Len(records)
        < MaxGymObjects

GymNewMember ==
    NewMemberOf({EmailLower, EmailOther}, {BasicPlain},
                GymRoom /\ Cardinality(DOMAIN memberObjs) < MaxMembers)

CreateWorkoutPlan == \E id \in DOMAIN memberObjs : create_workout_plan(id)

\* the Gym aggregate driven through its own methods only
NextGym ==
    \/ GymNewMember
    \/ AddMember
    \/ RemoveMember
    \/ PauseMembership
    \/ CancelMemberMembership
    \/ GymRoom /\ ChargeMember
    \/ GymRoom /\ CreateWorkoutPlan
    \/ RemoveWorkoutPlan

SpecGym == Init /\ [][NextGym]_vars

\* members, plans and exercises built so far, against the object budget
ExerciseSlots ==
    {sl \in (DOMAIN planObjs) \X (1..MaxExercises) :
        sl[2] <= Len(planObjs[sl[1]].exercises)}

PlansRoom ==
    Cardinality(DOMAIN memberObjs) + Cardinality(DOMAIN planObjs)
        + Cardinality(ExerciseSlots) < MaxPlanObjects

PlansNewMember ==
    NewMemberOf({EmailLower}, {BasicPlain},
                PlansRoom /\ Cardinality(DOMAIN memberObjs) < MaxMembers)

UnknownTrainerId == <<"trn", 0>>

\* Gym.get_member(member_id) called by a client
GetMember ==
    /\ \E id \in DOMAIN memberObjs :
          last' = Result("get_member", id, get_member(id).err)
    /\ UNCHANGED <<peopleVars, catalogVars, ledgerVars, fileVars>>

\* Gym.get_trainer(trainer_id) called by a client
GetTrainer ==
    /\ \E id \in DOMAIN trainerObjs \cup {UnknownTrainerId} :
          last' = Result("get_trainer", id, get_trainer(id).err)
    /\ UNCHANGED <<peopleVars, catalogVars, ledgerVars, fileVars>>

GetWorkoutPlan ==
    \E id \in DOMAIN planObjs \cup {UnknownPlanId} : get_workout_plan(id)

\* the client builds the Exercise first; an invalid one never reaches the gym
AddExerciseToPlan ==
    \E id \in DOMAIN planObjs \cup {UnknownPlanId}, raw \in ExerciseInputs :
        IF ExerciseValid(raw)
        THEN add_exercise_to_plan(id, Exercise(raw))
        ELSE /\ last' = Result("Exercise", None, ValidationError)
             /\ UNCHANGED <<peopleVars, catalogVars, ledgerVars, fileVars>>

RemoveExerciseFromPlan ==
    \E id \in DOMAIN planObjs \cup {UnknownPlanId},
       number \in 0..(MaxExercises + 1) :
        remove_exercise_from_plan(id, number)

\* workout plans driven through the Gym
NextPlans ==
    \/ PlansNewMember
    \/ AddMember
    \/ GetMember
    \/ GetTrainer
    \/ PlansRoom /\ CreateWorkoutPlan
    \/ GetWorkoutPlan
    \/ PlansRoom /\ AddExerciseToPlan
    \/ RemoveExerciseFromPlan
    \/ RemoveWorkoutPlan

SpecPlans == Init /\ [][NextPlans]_vars

\* one membership: built, changed, encoded, decoded
NextCodec ==
    \/ CodecPause
    \/ CodecResume
    \/ CodecCancel
    \/ Encode
    \/ Damage
    \/ Decode

SpecCodec == InitCodec /\ [][NextCodec]_vars

MaxLoadObjects == 3

LoadRoom ==
    Cardinality(DOMAIN memberObjs) + Cardinality(DOMAIN planObjs)
        + Len(records) < MaxLoadObjects

LoadNewMember ==
    NewMemberOf({EmailLower, EmailOther}, {BasicPlain},
                LoadRoom /\ Cardinality(DOMAIN memberObjs) < MaxMembers)

\* the gym is built before its first save
Building == pc = "idle" /\ ~fs[SavePath].exists

\* a gym that is built, saved, edited on disk and loaded
NextLoad ==
    \/ Building /\ LoadNewMember
    \/ Building /\ AddMember
    \/ Building /\ LoadRoom /\ CreateWorkoutPlan
    \/ Building /\ LoadRoom /\ ChargeMember
    \/ SaveBegin
    \/ SaveOpen
    \/ SaveWrite
    \/ SaveReplace
    \/ EditFile
    \/ LoadGym
    \/ WorkoutCatalogFromDict

SpecLoad == Init /\ [][NextLoad]_vars

\* a gym that changes between saves; the calls are sequential, so none starts
\* while save_gym is running
NextSave ==
    \/ pc = "idle" /\ BillingNewMember
    \/ pc = "idle" /\ AddMember
    \/ pc = "idle" /\ PauseMembership
    \/ pc = "idle" /\ CancelMemberMembership
    \/ SaveBegin
    \/ SaveOpen
    \/ SaveWrite
    \/ SaveReplace
    \/ Crash

SpecSave == Init /\ [][NextSave]_vars

----------------------------------------------------------------------------
(* Properties *)

\* the normalisation the specification speaks of: trim, then lower-case
Normalize(email) == Lower(Strip(email))

MemberEmail(id) == memberObjs[members[id]].email
TrainerEmail(id) == trainerObjs[trainers[id]].email

Values(d) == {d[k] : k \in DOMAIN d}

\* C1: email index invariant.  Every key of members_by_email maps to an id
\* present in members whose member's normalised email is that key, and every
\* member's normalised email is a key of members_by_email mapped to the
\* member's own id; likewise for trainers and trainers_by_email.
EmailIndexInvariant ==
    /\ \A k \in DOMAIN members_by_email :
          /\ members_by_email[k] \in DOMAIN members
          /\ Normalize(MemberEmail(members_by_email[k])) = k
    /\ \A id \in DOMAIN members :
          /\ Normalize(MemberEmail(id)) \in DOMAIN members_by_email
          /\ members_by_email[Normalize(MemberEmail(id))] = id
    /\ \A k \in DOMAIN trainers_by_email :
          /\ trainers_by_email[k] \in DOMAIN trainers
          /\ Normalize(TrainerEmail(trainers_by_email[k])) = k
    /\ \A id \in DOMAIN trainers :
          /\ Normalize(TrainerEmail(id)) \in DOMAIN trainers_by_email
          /\ trainers_by_email[Normalize(TrainerEmail(id))] = id

\* a member was just removed while another member and a trainer stay
\* registered
EmailIndexWitness ==
    /\ last.op = "remove_member"
    /\ last.err = NoError
    /\ members # EmptyDict
    /\ trainers # EmptyDict

\* C5: add is all-or-nothing.  A call of add_member (add_trainer) either
\* succeeds and inserts the entity into the primary map and its email key
\* into the secondary map, or raises ValidationError and leaves both maps as
\* they were; after the call the entity is in both maps or in neither.
AddAllOrNothing ==
    [][/\ last'.op = "add_member" =>
            LET x == last'.arg
            IN  /\ \/ /\ last'.err = NoError
                      /\ x \notin DOMAIN members
                      /\ Normalize(memberObjs[x].email) \notin DOMAIN members_by_email
                      /\ members' = Put(members, x, x)
                      /\ members_by_email' =
                            Put(members_by_email, Normalize(memberObjs[x].email), x)
                   \/ /\ last'.err = ValidationError
                      /\ UNCHANGED <<members, members_by_email>>
                /\ x \in DOMAIN members' <=> x \in Values(members_by_email')
       /\ last'.op = "add_trainer" =>
            LET x == last'.arg
            IN  /\ \/ /\ last'.err = NoError
                      /\ x \notin DOMAIN trainers
                      /\ Normalize(trainerObjs[x].email) \notin DOMAIN trainers_by_email
                      /\ trainers' = Put(trainers, x, x)
                      /\ trainers_by_email' =
                            Put(trainers_by_email, Normalize(trainerObjs[x].email), x)
                   \/ /\ last'.err = ValidationError
                      /\ UNCHANGED <<trainers, trainers_by_email>>
                /\ x \in DOMAIN trainers' <=> x \in Values(trainers_by_email')
      ]_vars

\* add_member has just rejected an active, unregistered member because its
\* email key is taken
AddRejectedWitness ==
    /\ last.op = "add_member"
    /\ last.err = ValidationError
    /\ IsMember(last.arg)
    /\ last.arg \notin DOMAIN members
    /\ memberObjs[last.arg].status = ACTIVE
    /\ Normalize(memberObjs[last.arg].email) \in DOMAIN members_by_email

\* C6: email uniqueness is case- and whitespace-insensitive.  add_member of
\* a member whose normalised email is that of another registered member
\* fails with ValidationError, and no two registered members ever share a
\* normalised email.
EmailUniqueness ==
    [][/\ (/\ last'.op = "add_member"
           /\ IsMember(last'.arg)
           /\ \E id \in DOMAIN members \ {last'.arg} :
                 Normalize(MemberEmail(id)) = Normalize(memberObjs[last'.arg].email))
          => /\ last'.err = ValidationError
             /\ UNCHANGED <<members, members_by_email>>
       /\ \A a, b \in DOMAIN members' :
             a # b => Normalize(memberObjs'[members'[a]].email)
                        # Normalize(memberObjs'[members'[b]].email)
      ]_vars

\* the rejected member's stored email differs from the registered one in
\* case only
EmailUniquenessWitness ==
    /\ last.op = "add_member"
    /\ last.err = ValidationError
    /\ IsMember(last.arg)
    /\ last.arg \notin DOMAIN members
    /\ \E id \in DOMAIN members :
          /\ MemberEmail(id) # memberObjs[last.arg].email
          /\ Normalize(MemberEmail(id)) = Normalize(memberObjs[last.arg].email)

\* C7: membership status state machine.  In every step the status of each
\* membership either stays or changes along ACTIVE -> PAUSED,
\* PAUSED -> ACTIVE, ACTIVE -> CANCELLED or PAUSED -> CANCELLED; a CANCELLED
\* membership is CANCELLED in the next state, hence in every later one.
AllowedTransitions ==
    {<<ACTIVE, PAUSED>>, <<PAUSED, ACTIVE>>,
     <<ACTIVE, CANCELLED>>, <<PAUSED, CANCELLED>>}

StatusStateMachine ==
    [][\A id \in DOMAIN memberObjs :
          /\ memberObjs'[id].status # memberObjs[id].status
                => <<memberObjs[id].status, memberObjs'[id].status>>
                      \in AllowedTransitions
          /\ memberObjs[id].status = CANCELLED
                => memberObjs'[id].status = CANCELLED
      ]_vars

\* resume was just called on a cancelled membership, while another
\* membership sits in PAUSED
StatusStateMachineWitness ==
    /\ last.op = "resume"
    /\ memberObjs[last.arg].status = CANCELLED
    /\ \E id \in DOMAIN memberObjs : memberObjs[id].status = PAUSED

\* C8: pause and resume on a CANCELLED membership, called on the membership
\* or through Gym.pause_membership for a registered member, fail with
\* ValidationError and leave the status CANCELLED.
CancelledRejectsPauseResume ==
    [][(/\ \/ last'.op \in {"pause", "resume"}
           \/ last'.op = "pause_membership" /\ last'.arg \in DOMAIN members
        /\ memberObjs[last'.arg].status = CANCELLED)
          => /\ last'.err = ValidationError
             /\ memberObjs'[last'.arg].status = CANCELLED
      ]_vars

\* Gym.pause_membership has just been refused for a registered, cancelled
\* member
CancelledRejectsWitness ==
    /\ last.op = "pause_membership"
    /\ last.arg \in DOMAIN members
    /\ last.err = ValidationError
    /\ memberObjs[last.arg].status = CANCELLED

\* C9: cancel has no precondition and is idempotent.  From any status cancel
\* (on the membership, or through Gym.cancel_member_membership for a
\* registered member) raises nothing and leaves the status CANCELLED, nothing
\* but the status changes, and a cancel applied to the resulting status gives
\* the same result once more.
CancelIdempotent ==
    [][(\/ last'.op = "cancel"
        \/ last'.op = "cancel_member_membership" /\ last'.arg \in DOMAIN members)
          => /\ last'.err = NoError
             /\ memberObjs' = [memberObjs EXCEPT ![last'.arg].status = CANCELLED]
             /\ cancel(memberObjs'[last'.arg].status)
                   = Outcome(NoError, memberObjs'[last'.arg].status)
             /\ UNCHANGED <<members, members_by_email, ledgerVars>>
      ]_vars

\* Gym.cancel_member_membership has just succeeded on a registered member
CancelWitness ==
    /\ last.op = "cancel_member_membership"
    /\ last.arg \in DOMAIN members
    /\ last.err = NoError
    /\ memberObjs[last.arg].status = CANCELLED

\* C10: charge_member preconditions.  For a registered member whose
\* membership is not ACTIVE, or with a negative amount to charge,
\* charge_member fails with ValidationError, the payment processor is not
\* invoked and the ledger is unchanged.
ChargePreconditions ==
    [][(/\ last'.op = "charge_member"
        /\ last'.arg \in DOMAIN members
        /\ \/ memberObjs[last'.arg].status # ACTIVE
           \/ last'.amount.given /\ last'.amount.value < 0
           \/ ~last'.amount.given /\ monthly_price(memberObjs[last'.arg]) < 0)
          => /\ last'.err = ValidationError
             /\ UNCHANGED <<records, processorCalls>>
      ]_vars

\* a charge of a paused member has just been refused, after an earlier charge
\* had been recorded
ChargeRefusedWitness ==
    /\ last.op = "charge_member"
    /\ last.arg \in DOMAIN members
    /\ last.err = ValidationError
    /\ memberObjs[last.arg].status = PAUSED
    /\ records # <<>>

\* a charge with a negative amount has just been refused for an active member
ChargeNegativeWitness ==
    /\ last.op = "charge_member"
    /\ last.arg \in DOMAIN members
    /\ last.err = ValidationError
    /\ memberObjs[last.arg].status = ACTIVE
    /\ last.amount.given /\ last.amount.value < 0

\* the whole text of document doc
FullText(doc) == [i \in 1..DocChunks |-> [part |-> i, of |-> doc]]

\* C3: atomic save.  In every step of save_gym, and at a crash, the target
\* path keeps the content it had, except for the replace step, which installs
\* the complete new document; so the target never exists with anything but a
\* complete document.
AtomicSave ==
    [][/\ \/ fs'[SavePath] = fs[SavePath]
          \/ /\ pc = "replace"
             /\ pc' = "idle"
             /\ fs'[SavePath] = File(FullText(payload))
       /\ fs'[SavePath].exists => Complete(fs'[SavePath])
       /\ pc' = "crashed" => fs'[SavePath] = fs[SavePath]
      ]_vars

\* the process died with the sibling file partly written while the target
\* holds an earlier, different snapshot
AtomicSaveWitness ==
    /\ pc = "crashed"
    /\ fs[tmp_path(SavePath)].exists
    /\ fs[tmp_path(SavePath)].data # <<>>
    /\ ~Complete(fs[tmp_path(SavePath)])
    /\ Complete(fs[SavePath])
    /\ fs[SavePath].data[1].of # payload

\* the sequence s without its first occurrence of x
RECURSIVE RemoveFirst(_, _)
RemoveFirst(s, x) ==
    IF s = <<>> THEN s
    ELSE IF Head(s) = x THEN Tail(s)
    ELSE <<Head(s)>> \o RemoveFirst(Tail(s), x)

Occurrences(s, x) == Cardinality({i \in 1..Len(s) : s[i] = x})

\* C2: workout index invariant.  Every plan id listed in plans_by_member[m]
\* is present in plans with member_id m, and every plan in plans appears
\* exactly once in plans_by_member[plan.member_id].
WorkoutIndexInvariant ==
    /\ \A m \in DOMAIN plans_by_member :
          \A i \in 1..Len(plans_by_member[m]) :
             /\ plans_by_member[m][i] \in DOMAIN plans
             /\ planObjs[plans[plans_by_member[m][i]]].member_id = m
    /\ \A pid \in DOMAIN plans :
          LET m == planObjs[plans[pid]].member_id
          IN  /\ m \in DOMAIN plans_by_member
              /\ Occurrences(plans_by_member[m], pid) = 1

\* C4: removing a plan from the one-to-many index.  For a plan present in a
\* catalog whose indexes are consistent, remove_plan (remove_workout_plan)
\* raises nothing, removes the id from plans and removes only that id from
\* the owner's list, the other ids keeping their order.
RemovePlanUpdatesIndex ==
    [][(/\ last'.op \in {"remove_plan", "remove_workout_plan"}
        /\ last'.arg \in DOMAIN plans
        /\ WorkoutIndexInvariant)
          => LET pid == last'.arg
                 m == planObjs[plans[pid]].member_id
             IN  /\ last'.err = NoError
                 /\ plans' = Pop(plans, pid)
                 /\ plans_by_member' =
                       [plans_by_member EXCEPT ![m] = RemoveFirst(@, pid)]
      ]_vars

IsPrefix(s, t) == Len(s) <= Len(t) /\ SubSeq(t, 1, Len(s)) = s

StoredEmails == {Strip(raw) : raw \in EmailInputs}

RemoveClearsBothHalves ==
    [][\A id \in DOMAIN memberObjs, e \in StoredEmails :
          (/\ last'.op = "remove_member"
           /\ last'.err = NoError
           /\ last'.arg = id
           /\ memberObjs[id].email = e)
          => /\ id \in DOMAIN members
             /\ Normalize(e) \in DOMAIN members_by_email
             /\ DOMAIN members' = DOMAIN members \ {id}
             /\ DOMAIN members_by_email' = DOMAIN members_by_email \ {Normalize(e)}
             /\ get_member(id)'.err = NotFoundError
             /\ find_member_by_email(e)' = None
             /\ \A other \in DOMAIN members' : members'[other] = members[other]
             /\ \A k \in DOMAIN members_by_email' :
                   members_by_email'[k] = members_by_email[k]
      ]_vars

\* a member has just been removed while another member stays registered
RemoveClearsWitness ==
    /\ last.op = "remove_member"
    /\ last.err = NoError
    /\ last.arg \notin DOMAIN members
    /\ members # EmptyDict
    /\ members_by_email # EmptyDict

UpperChar(c) ==
    CASE c = "a" -> "A"
      [] c = "b" -> "B"
      [] c = "c" -> "C"
      [] c = "x" -> "X"
      [] OTHER -> c

Upper(s) == [i \in 1..Len(s) |-> UpperChar(s[i])]

\* case and surrounding-whitespace variants of an email
Variants(email) ==
    {email, Lower(email), Upper(email), <<" ">> \o email, email \o <<" ">>,
     <<" ", " ">> \o Upper(email) \o <<" ">>}

\* C14: add then look up.  For every registered member m, get_member(m.id)
\* returns m and find_member_by_email of any case or whitespace variant of
\* m.email returns m.
AddThenLookUp ==
    \A id \in DOMAIN members :
       /\ get_member(id) = [err |-> NoError, member |-> id]
       /\ \A v \in Variants(memberObjs[id].email) : find_member_by_email(v) = id

\* a member whose stored email is not its own key has just been added next to
\* another registered member
AddThenLookUpWitness ==
    /\ last.op = "add_member"
    /\ last.err = NoError
    /\ last.arg \in DOMAIN members
    /\ memberObjs[last.arg].email # Normalize(memberObjs[last.arg].email)
    /\ Cardinality(DOMAIN members) >= 2

\* C15: every aggregate method that looks an entity up by id reports an
\* absent id as NotFoundError: get_member, get_trainer, get_workout_plan,
\* add_exercise_to_plan, remove_exercise_from_plan and remove_workout_plan.
AbsentIdIsNotFound ==
    [][/\ (last'.op = "get_member" /\ last'.arg \notin DOMAIN members)
             => last'.err = NotFoundError
       /\ (last'.op = "get_trainer" /\ last'.arg \notin DOMAIN trainers)
             => last'.err = NotFoundError
       /\ (/\ last'.op \in {"get_workout_plan", "add_exercise_to_plan",
                            "remove_exercise_from_plan", "remove_workout_plan"}
           /\ last'.arg \notin DOMAIN plans)
             => last'.err = NotFoundError
      ]_vars

\* C17: membership round trip: membership_from_dict(membership_to_dict(x))
\* succeeds and has the tier, the status and the price policy of x, for
\* every tier, status and price policy.
MembershipRoundTrip ==
    codec.stage = "decoded" =>
        /\ codec.y.err = NoError
        /\ codec.y.value.tier = codec.x.tier
        /\ codec.y.value.status = codec.x.status
        /\ codec.y.value.price_policy = codec.x.price_policy

\* C16: after a successful load the dual-index invariant holds for every
\* accepted document, two entries with the same stored id included: each
\* email key maps to a loaded member (trainer) with that normalised email and
\* each loaded member (trainer) is indexed under its key; each id listed for
\* an owner is a loaded plan of that owner and each loaded plan is listed for
\* its owner.
LoadedIndexInvariant ==
    loaded.returned =>
        LET g == loaded.value
        IN  /\ \A k \in DOMAIN g.members_by_email :
                  /\ g.members_by_email[k] \in DOMAIN g.members
                  /\ Normalize(g.members[g.members_by_email[k]].email) = k
            /\ \A id \in DOMAIN g.members :
                  /\ Normalize(g.members[id].email) \in DOMAIN g.members_by_email
                  /\ g.members_by_email[Normalize(g.members[id].email)] = id
            /\ \A k \in DOMAIN g.trainers_by_email :
                  /\ g.trainers_by_email[k] \in DOMAIN g.trainers
                  /\ Normalize(g.trainers[g.trainers_by_email[k]].email) = k
            /\ \A id \in DOMAIN g.trainers :
                  /\ Normalize(g.trainers[id].email) \in DOMAIN g.trainers_by_email
                  /\ g.trainers_by_email[Normalize(g.trainers[id].email)] = id
            /\ \A m \in DOMAIN g.plans_by_member :
                  \A i \in 1..Len(g.plans_by_member[m]) :
                     /\ g.plans_by_member[m][i] \in DOMAIN g.plans
                     /\ g.plans[g.plans_by_member[m][i]].member_id = m
            /\ \A pid \in DOMAIN g.plans :
                  /\ g.plans[pid].member_id \in DOMAIN g.plans_by_member
                  /\ Occurrences(g.plans_by_member[g.plans[pid].member_id],
                                 pid) >= 1

\* the file on the save path is what save_gym writes for the gym as it is
FileIsSaveOfGym ==
    /\ Complete(fs[SavePath])
    /\ DocumentOf(fs[SavePath]) =
           [schema_version |-> JInt(CURRENT_SCHEMA_VERSION), gym |-> gym_to_dict]

\* g has the name, members, trainers, plans and ledger records of the gym
SameAsGym(g) ==
    /\ g.name = GymName
    /\ DOMAIN g.members = DOMAIN members
    /\ \A id \in DOMAIN members :
          /\ g.members[id].full_name = memberObjs[members[id]].full_name
          /\ g.members[id].email = memberObjs[members[id]].email
    /\ DOMAIN g.trainers = DOMAIN trainers
    /\ \A id \in DOMAIN trainers :
          /\ g.trainers[id].full_name = trainerObjs[trainers[id]].full_name
          /\ g.trainers[id].email = trainerObjs[trainers[id]].email
    /\ DOMAIN g.plans = DOMAIN plans
    /\ \A pid \in DOMAIN plans :
          /\ g.plans[pid].member_id = planObjs[plans[pid]].member_id
          /\ g.plans[pid].exercises = planObjs[plans[pid]].exercises
    /\ Len(g.records) = Len(records)
    /\ \A i \in 1..Len(records) :
          /\ g.records[i].id = records[i].id
          /\ g.records[i].member_id = records[i].member_id
          /\ g.records[i].amount = records[i].amount
          /\ g.records[i].status = records[i].status

\* C18: aggregate round trip: load_gym of the file save_gym wrote for a gym
\* reached through aggregate operations returns a gym with the same name,
\* the same members and trainers (names, emails), the same plans (owner,
\* exercises in order) and the same ledger records in order.
AggregateRoundTrip ==
    [][(last'.op = "load_gym" /\ FileIsSaveOfGym)
          => loaded'.returned /\ SameAsGym(loaded'.value)]_vars

EmptyGym ==
    /\ members = EmptyDict
    /\ trainers = EmptyDict
    /\ plans = EmptyDict
    /\ records = <<>>

\* C19: saving and then loading an empty gym named "X" succeeds and yields a
\* gym with no members, no trainers, no plans, no ledger records and name
\* "X".
EmptyGymRoundTrip ==
    [][(last'.op = "load_gym" /\ FileIsSaveOfGym /\ EmptyGym)
          => /\ loaded'.err = NoError
             /\ loaded'.returned
             /\ loaded'.value = [NoGym EXCEPT !.name = GymName]]_vars

\* C20: load_gym of a file whose root object has a schema_version other than
\* the supported one (2, 0, missing, not an integer) fails with
\* ValidationError and returns no gym, whatever the rest of the document is.
OtherVersionRejected ==
    [][(/\ last'.op = "load_gym"
        /\ Complete(fs[SavePath])
        /\ IsDict(DocumentOf(fs[SavePath]))
        /\ \/ ~Has(DocumentOf(fs[SavePath]), "schema_version")
           \/ DocumentOf(fs[SavePath]).schema_version
                 # JInt(CURRENT_SCHEMA_VERSION))
          => loaded'.err = ValidationError /\ ~loaded'.returned]_vars

\* C21: load_gym fails with ValidationError, and with no other kind of
\* error, when the file does not exist, when its content is not a JSON
\* document, and when the root of the document is not an object.
LoadFailureKinds ==
    [][(/\ last'.op = "load_gym"
        /\ \/ ~fs[SavePath].exists
           \/ ~Complete(fs[SavePath])
           \/ ~IsDict(DocumentOf(fs[SavePath])))
          => loaded'.err = ValidationError /\ ~loaded'.returned]_vars

\* C22: decoding a document that is not well formed fails with
\* ValidationError, never with another kind of error and never with success:
\* a missing required field, an unknown membership type, price-policy type or
\* status, a number out of range.
DecodeFailuresAreValidationErrors ==
    codec.stage = "decoded_damaged" => codec.y.err = ValidationError

\* the ids stored in the entries of a section of the document
StoredIds(entries) == {entries[k].id : k \in DOMAIN entries}

\* C23: no partial load.  load_gym either returns a gym holding every
\* member, trainer, plan and ledger record of the document, or raises and
\* returns nothing; it changes neither the gym the caller holds nor the file.
NoPartialLoad ==
    [][last'.op = "load_gym"
          => /\ loaded'.returned =>
                  LET gym == DocumentOf(fs[SavePath]).gym
                  IN  /\ StoredIds(gym.members) \subseteq DOMAIN loaded'.value.members
                      /\ StoredIds(gym.trainers) \subseteq DOMAIN loaded'.value.trainers
                      /\ StoredIds(gym.workouts.plans) \subseteq DOMAIN loaded'.value.plans
                      /\ Len(loaded'.value.records) = Len(gym.payment_ledger.records)
             /\ ~loaded'.returned =>
                  loaded'.err # NoError /\ loaded'.value = NoGym
             /\ UNCHANGED <<peopleVars, catalogVars, ledgerVars, fs>>]_vars

\* load_gym has just failed on the second of two member entries, the first
\* one being well formed
NoPartialLoadWitness ==
    /\ last.op = "load_gym"
    /\ loaded.err = KeyError
    /\ Complete(fs[SavePath])
    /\ IsDict(DocumentOf(fs[SavePath]))
    /\ Has(DocumentOf(fs[SavePath]), "gym")
    /\ LET entries == Entries(DocumentOf(fs[SavePath]).gym.members)
       IN  /\ Len(entries) = 2
           /\ member_from_dict(entries[1], None).err = NoError
           /\ member_from_dict(entries[2], None).err = KeyError

\* the secondary entry of a registered entity has drifted: its normalised
\* email is not a key of the index, or the key maps to another id
Drifted(index, email, id) ==
    \/ Normalize(email) \notin DOMAIN index
    \/ index[Normalize(email)] # id

\* C24: remove_member (remove_trainer) for an id present in the primary map
\* whose email key is missing from the secondary map or maps to another id
\* raises ValidationError, not NotFoundError, and leaves the secondary map,
\* the other id's entry included, as it was.
DriftedRemoveIsFatal ==
    [][/\ \A id \in DOMAIN members :
            (/\ last'.op = "remove_member"
             /\ last'.arg = id
             /\ Drifted(members_by_email, memberObjs[members[id]].email, id))
               => /\ last'.err = ValidationError
                  /\ members_by_email' = members_by_email
       /\ \A id \in DOMAIN trainers :
            (/\ last'.op = "remove_trainer"
             /\ last'.arg = id
             /\ Drifted(trainers_by_email, trainerObjs[trainers[id]].email, id))
               => /\ last'.err = ValidationError
                  /\ trainers_by_email' = trainers_by_email
      ]_vars

\* a member whose email key belongs to another registered member has just
\* been removed with ValidationError
DriftedRemoveWitness ==
    /\ last.op = "remove_member"
    /\ last.err = ValidationError
    /\ last.arg \notin DOMAIN members
    /\ Normalize(memberObjs[last.arg].email) \in DOMAIN members_by_email
    /\ members_by_email[Normalize(memberObjs[last.arg].email)] \in DOMAIN members

\* C25: remove_member (remove_trainer) with an id that is not in the primary
\* map fails with NotFoundError and leaves the primary map and the email
\* index unchanged.
RemoveAbsentIsNotFound ==
    [][/\ (last'.op = "remove_member" /\ last'.arg \notin DOMAIN members)
             => /\ last'.err = NotFoundError
                /\ UNCHANGED <<members, members_by_email>>
       /\ (last'.op = "remove_trainer" /\ last'.arg \notin DOMAIN trainers)
             => /\ last'.err = NotFoundError
                /\ UNCHANGED <<trainers, trainers_by_email>>
      ]_vars

\* remove_member has just been refused for an id that is not registered
\* while another member is
RemoveAbsentWitness ==
    /\ last.op = "remove_member"
    /\ last.err = NotFoundError
    /\ last.arg \notin DOMAIN members
    /\ members # EmptyDict

\* the monthly price of the two memberships members are created with, worked
\* out by hand: 29.99 undiscounted, and 59.99 less 20% = 47.992 -> 47.99
ListPrice(m) ==
    CASE m.tier = "basic" /\ m.price_policy = NoDiscount -> 2999
      [] m.tier = "premium" /\ m.price_policy = PercentOff(20) -> 4799

Successes(recs, owned(_)) ==
    {i \in 1..Len(recs) : recs[i].status = SUCCESS /\ owned(recs[i])}

\* the sum of the amounts at a set of positions
RECURSIVE SumAt(_, _)
SumAt(recs, positions) ==
    IF positions = {} THEN 0
    ELSE LET i == CHOOSE j \in positions : TRUE
         IN  recs[i].amount + SumAt(recs, positions \ {i})

NoCascadeOnRemoval ==
    [][\A m \in DOMAIN memberObjs :
         (last'.op = "remove_member" /\ last'.arg = m)
            => /\ UNCHANGED catalogVars
               /\ m \in DOMAIN members
                    => /\ \A id \in DOMAIN plans :
                            planObjs[plans[id]].member_id = m
                               => /\ get_plan(id)'.err = NoError
                                  /\ get_plan(id)'.plan = plans[id]
                       /\ list_plans_for_member(m)'.err = NotFoundError
      ]_vars

\* a member who owns a stored plan has just been removed
NoCascadeWitness ==
    /\ last.op = "remove_member"
    /\ last.err = NoError
    /\ last.arg \notin DOMAIN members
    /\ last.arg \in DOMAIN plans_by_member
    /\ \E id \in DOMAIN plans :
          /\ planObjs[plans[id]].member_id = last.arg
          /\ id = plans_by_member[last.arg][1]

\* C31: through Gym methods only, a membership that is PAUSED or CANCELLED
\* is never ACTIVE again, whether its member stays registered, is removed or
\* is added back, and a charge_member call for it is refused and adds no
\* record.
NoWayBackToActive ==
    [][\A id \in DOMAIN memberObjs :
         memberObjs[id].status # ACTIVE
            => /\ memberObjs'[id].status # ACTIVE
               /\ (last'.op = "charge_member" /\ last'.arg = id)
                     => /\ last'.err # NoError
                        /\ records' = records
      ]_vars

\* a registered member who was charged while ACTIVE and then paused has just
\* been refused a charge
NoWayBackWitness ==
    /\ last.op = "charge_member"
    /\ last.err = ValidationError
    /\ last.arg \in DOMAIN members
    /\ memberObjs[last.arg].status = PAUSED
    /\ \E i \in 1..Len(records) : records[i].member_id = last.arg

\* C32: add_member of a member whose membership is CANCELLED raises
\* ValidationError and leaves members and members_by_email unchanged, so an
\* id that enters members is never CANCELLED at that moment.
CancelledNotAdmitted ==
    [][\A id \in DOMAIN memberObjs :
         /\ (/\ last'.op = "add_member"
             /\ last'.arg = id
             /\ memberObjs[id].status = CANCELLED)
               => /\ last'.err = ValidationError
                  /\ UNCHANGED <<members, members_by_email>>
         /\ (id \in DOMAIN members' /\ id \notin DOMAIN members)
               => /\ last'.op = "add_member"
                  /\ memberObjs'[id].status # CANCELLED
      ]_vars

\* a CANCELLED member that is not registered, and whose email nobody holds,
\* has just been refused by add_member
CancelledNotAdmittedWitness ==
    /\ last.op = "add_member"
    /\ last.err = ValidationError
    /\ last.arg \in DOMAIN memberObjs
    /\ last.arg \notin DOMAIN members
    /\ memberObjs[last.arg].status = CANCELLED
    /\ Normalize(memberObjs[last.arg].email) \notin DOMAIN members_by_email

====
